---- MODULE Spec2Model ----
(***************************************************************************)
(* Model of examples/HvacTelnetServer/HvacTelnetServer.ino: the command    *)
(* processor, the per-device runtime state table, the telnet observer pool *)
(* and the raw waveform decoders.                                          *)
(*                                                                         *)
(* Conventions                                                             *)
(*   - Arduino Strings that are only compared are TLA+ strings; Strings    *)
(*     that are scanned character by character (IR codes) are sequences of *)
(*     one-character strings.                                              *)
(*   - A float is the integer number of 2^-23 units it holds (every float  *)
(*     in [1, 256) is such an integer); single precision rounding is       *)
(*     computed explicitly by RoundF.                                      *)
(*   - A JSON member is a tagged record [k, ...]; k = "none" is an absent  *)
(*     member.                                                             *)
(***************************************************************************)
EXTENDS Integers, Sequences, FiniteSets, TLC

\* ------------------------------------------------------------------------
\* Program constants
\* ------------------------------------------------------------------------
kMaxTelnetClients == 4

kProntoMinLength == 6

\* ------------------------------------------------------------------------
\* Bounds of the model
\* ------------------------------------------------------------------------
\* size of the hvacStates table that is modelled (the program has kMaxHvacs)
MaxHvacs == 4

\* telnet slots 0..MaxSrcSlot (and the web, slot -1) issue commands
MaxSrcSlot == 0

\* ------------------------------------------------------------------------
\* Single precision floats, in units of 2^-23
\* ------------------------------------------------------------------------
FUnit == 2^23

\* spacing of the floats around n units (n in [1, 256) * FUnit)
Gran(n) ==
  IF n < 2 * FUnit THEN 1
  ELSE IF n < 4 * FUnit THEN 2
  ELSE IF n < 8 * FUnit THEN 4
  ELSE IF n < 16 * FUnit THEN 8
  ELSE IF n < 32 * FUnit THEN 16
  ELSE IF n < 64 * FUnit THEN 32
  ELSE IF n < 128 * FUnit THEN 64
  ELSE 128

\* the float nearest to n + num/den units (0 <= num < den), ties to even
RoundF(n, num, den) ==
  LET g == Gran(n)
      q == n \div g
      r == n % g
      twice == 2 * (r * den + num)
  IN  IF twice < g * den THEN q * g
      ELSE IF twice > g * den THEN (q + 1) * g
      ELSE IF q % 2 = 0 THEN q * g ELSE (q + 1) * g

\* the float a JSON number of h hundredths converts to
JsonToFloat(h) ==
  LET i == h \div 100
      j == h % 100
  IN  RoundF(i * FUnit + ((j * FUnit) \div 100), (j * FUnit) % 100, 100)

\* b + 0.05f in single precision; 0.05f is 419430 + 13/32 units
FAddEps(b) == RoundF(b + 419430, 13, 32)

\* the comparison made in one direction only
floatChangedOneWay(a, b) == a > FAddEps(b)

floatChanged(a, b) == (a > FAddEps(b)) \/ (b > FAddEps(a))

\* 24.0f
kDefaultTemp == 24 * FUnit

\* ------------------------------------------------------------------------
\* Character strings (IR codes): sequences of one-character strings
\* ------------------------------------------------------------------------
DecDigits == <<"0", "1", "2", "3", "4", "5", "6", "7", "8", "9">>

HexLower == <<"a", "b", "c", "d", "e", "f">>

HexUpper == <<"A", "B", "C", "D", "E", "F">>

IsIn(c, digits) == \E k \in 1..Len(digits) : digits[k] = c

IndexIn(c, digits) == CHOOSE k \in 1..Len(digits) : digits[k] = c

isDigit(c) == IsIn(c, DecDigits)

isSpace(c) == c \in {" ", "\t", "\n", "\r"}

\* isTokenSep without the tab
isTokenSepNoTab(c) == c \in {",", ";", " "}

isTokenSep(c) == c \in {",", ";", " ", "\t"}

isHexDigitChar(c) == IsIn(c, DecDigits) \/ IsIn(c, HexLower) \/ IsIn(c, HexUpper)

HexVal(c) ==
  IF IsIn(c, DecDigits) THEN IndexIn(c, DecDigits) - 1
  ELSE IF IsIn(c, HexLower) THEN IndexIn(c, HexLower) + 9
  ELSE IndexIn(c, HexUpper) + 9

\* String::substring(from, to), 0-based, to exclusive
Substring(str, from, to) == SubSeq(str, from + 1, to)

StartsWith(str, prefix) ==
  /\ Len(str) >= Len(prefix)
  /\ SubSeq(str, 1, Len(prefix)) = prefix

RECURSIVE TrimLeft(_)
TrimLeft(str) ==
  IF str # <<>> /\ isSpace(Head(str)) THEN TrimLeft(Tail(str)) ELSE str

RECURSIVE TrimRight(_)
TrimRight(str) ==
  IF str # <<>> /\ isSpace(str[Len(str)])
  THEN TrimRight(SubSeq(str, 1, Len(str) - 1)) ELSE str

\* String::trim()
Trim(str) == TrimRight(TrimLeft(str))

\* the value of the longest prefix of str made of digits of the base,
\* starting from acc (0 when there is none)
RECURSIVE DigitsValue(_, _, _)
DigitsValue(str, base, acc) ==
  IF str = <<>> THEN acc
  ELSE IF base = 10 /\ isDigit(Head(str))
    THEN DigitsValue(Tail(str), base, acc * 10 + HexVal(Head(str)))
  ELSE IF base = 16 /\ isHexDigitChar(Head(str))
    THEN DigitsValue(Tail(str), base, acc * 16 + HexVal(Head(str)))
  ELSE acc

\* String::toInt() (atol): blanks, an optional sign, then decimal digits
toInt(str) ==
  LET s == TrimLeft(str)
  IN  IF s # <<>> /\ Head(s) = "-" THEN 0 - DigitsValue(Tail(s), 10, 0)
      ELSE IF s # <<>> /\ Head(s) = "+" THEN DigitsValue(Tail(s), 10, 0)
      ELSE DigitsValue(s, 10, 0)

\* strtoul(str, NULL, 16): blanks, an optional 0x, then hexadecimal digits
strtoul16(str) ==
  LET s == TrimLeft(str)
      t == IF Len(s) >= 2 /\ s[1] = "0" /\ s[2] \in {"x", "X"}
                /\ Len(s) >= 3 /\ isHexDigitChar(s[3])
           THEN SubSeq(s, 3, Len(s)) ELSE s
  IN  DigitsValue(t, 16, 0)

\* conversion to uint16_t
U16(n) == n % 65536

\* ------------------------------------------------------------------------
\* Tokenizer
\* ------------------------------------------------------------------------
RECURSIVE CountTokensFrom(_, _, _, _)
CountTokensFrom(str, i, in_token, count) ==
  IF i > Len(str) THEN (IF in_token THEN count + 1 ELSE count)
  ELSE IF isTokenSep(str[i])
    THEN CountTokensFrom(str, i + 1, FALSE, IF in_token THEN count + 1 ELSE count)
  ELSE CountTokensFrom(str, i + 1, TRUE, count)

countTokensFlexible(str) == U16(CountTokensFrom(str, 1, FALSE, 0))

\* first position >= pos (0-based) whose character is (stop = TRUE) or is
\* not (stop = FALSE) a separator, or the length of str
RECURSIVE ScanTo(_, _, _)
ScanTo(str, pos, stop) ==
  IF pos < Len(str) /\ (isTokenSep(str[pos + 1]) # stop)
  THEN ScanTo(str, pos + 1, stop) ELSE pos

\* [ok, pos, token]: the result and the updated pos and token arguments
nextTokenFlexible(str, pos, token) ==
  LET start == ScanTo(str, pos, FALSE)
      end == ScanTo(str, start, TRUE)
  IN  IF start >= Len(str) THEN [ok |-> FALSE, pos |-> start, token |-> token]
      ELSE [ok |-> TRUE, pos |-> end, token |-> Substring(str, start, end)]

\* the loop "while (nextTokenFlexible(...) && filled < count) array[filled++]
\* = conv(token)": the array that was filled
RECURSIVE FillCodeArray(_, _, _, _, _)
FillCodeArray(str, pos, count, base, filled) ==
  LET nt == nextTokenFlexible(str, pos, <<>>)
  IN  IF nt.ok /\ Len(filled) < count
      THEN FillCodeArray(str, nt.pos, count, base,
             Append(filled, U16(IF base = 10 THEN toInt(nt.token)
                                ELSE strtoul16(nt.token))))
      ELSE filled

\* ------------------------------------------------------------------------
\* Decoders.  Each yields [ok, calls]: the returned flag and the calls made
\* on the IRsend object, in order.
\* ------------------------------------------------------------------------
GCPrefix1 == <<"s", "e", "n", "d", "i", "r", ",">>

GCPrefix2 == <<"1", ":", "1", ",", "1", ",">>

parseStringAndSendGC(str) ==
  LET t0 == Trim(str)
      t1 == IF StartsWith(t0, GCPrefix1) THEN Substring(t0, 7, Len(t0)) ELSE t0
      t2 == IF StartsWith(t1, GCPrefix2) THEN Substring(t1, 6, Len(t1)) ELSE t1
      count == countTokensFlexible(t2)
      code_array == FillCodeArray(t2, 0, count, 10, <<>>)
  IN  [ok |-> Len(code_array) > 0,
       calls |-> << [fn |-> "sendGC", data |-> code_array, arg |-> 0] >>]

parseStringAndSendPronto(str, repeats) ==
  LET tmp == Trim(str)
      count0 == countTokensFlexible(tmp)
      first == nextTokenFlexible(tmp, 0, <<>>)
      isRepeat == first.ok /\ Len(first.token) > 1 /\ first.token[1] \in {"R", "r"}
      rep == IF isRepeat THEN U16(toInt(Tail(first.token))) ELSE repeats
      count == IF isRepeat THEN U16(count0 - 1) ELSE count0
      pos == IF isRepeat THEN first.pos ELSE 0
      code_array == FillCodeArray(tmp, pos, count, 16, <<>>)
  IN  IF count < kProntoMinLength THEN [ok |-> FALSE, calls |-> <<>>]
      ELSE [ok |-> Len(code_array) > 0,
            calls |-> << [fn |-> "sendPronto", data |-> code_array, arg |-> rep] >>]

\* the hexadecimal digits of str, in order
RECURSIVE HexOnly(_)
HexOnly(str) ==
  IF str = <<>> THEN <<>>
  ELSE IF isHexDigitChar(Head(str)) THEN <<Head(str)>> \o HexOnly(Tail(str))
  ELSE HexOnly(Tail(str))

\* words[i] = (uint16_t) strtoul(hex[4i .. 4i+3], NULL, 16)
RacepointWords(hex) ==
  [i \in 1..(Len(hex) \div 4) |->
     U16(strtoul16(SubSeq(hex, 4 * (i - 1) + 1, 4 * i)))]

\* the first word of at least 20000, without the upper limit
RECURSIVE FirstFreqLoose(_, _)
FirstFreqLoose(words, i) ==
  IF i > Len(words) THEN 0
  ELSE IF words[i] >= 20000 THEN i
  ELSE FirstFreqLoose(words, i + 1)

\* index (1-based) of the first word in [20000, 60000], 0 when none
RECURSIVE FirstFreqIndex(_, _)
FirstFreqIndex(words, i) ==
  IF i > Len(words) THEN 0
  ELSE IF words[i] >= 20000 /\ words[i] <= 60000 THEN i
  ELSE FirstFreqIndex(words, i + 1)

\* the pulse sequence with its trailing zero words kept
TrimEndNone(words, start, end) == end

\* while (end > start && words[end - 1] == 0) end--;   (0-based start, end)
RECURSIVE TrimEnd(_, _, _)
TrimEnd(words, start, end) ==
  IF end > start /\ words[end] = 0 THEN TrimEnd(words, start, end - 1) ELSE end

\* (uint32_t) w * 1000000UL + (freq / 2), as 16-bit halves [hi, lo];
\* 1000000 = 15 * 65536 + 16960
RacepointScaled(w, freq) ==
  LET low == w * 16960 + (freq \div 2)
      lo == low % 65536
      hi == (w * 15 + (low \div 65536)) % 65536
  IN  [hi |-> hi, lo |-> lo]

\* the 32-bit quotient (hi * 65536 + lo) / freq, by long division
RacepointDuration(w, freq) ==
  LET x == RacepointScaled(w, freq)
      q0 == x.hi \div freq
      r0 == x.hi % freq
      t1 == r0 * 256 + (x.lo \div 256)
      q1 == t1 \div freq
      r1 == t1 % freq
      t2 == r1 * 256 + (x.lo % 256)
      q2 == t2 \div freq
  IN  q0 * 65536 + q1 * 256 + q2

\* a mark emitted in one call, its duration cut to 16 bits
MarkCallsWhole(duration) ==
  IF duration > 0
  THEN << [fn |-> "mark", data |-> <<>>, arg |-> duration % 65536] >>
  ELSE <<>>

\* while (duration > 0) { chunk = min(duration, 65535); mark(chunk); ... }
RECURSIVE MarkCalls(_)
MarkCalls(duration) ==
  IF duration > 0
  THEN LET chunk == IF duration > 65535 THEN 65535 ELSE duration
       IN  << [fn |-> "mark", data |-> <<>>, arg |-> chunk] >>
             \o MarkCalls(duration - chunk)
  ELSE <<>>

\* the calls of the pulse loop for pulses i .. pulseCount-1 (0-based i)
RECURSIVE PulseCalls(_, _, _, _, _)
PulseCalls(words, start, pulseCount, freq, i) ==
  IF i >= pulseCount THEN <<>>
  ELSE LET duration == RacepointDuration(words[start + i + 1], freq)
       IN  (IF i % 2 = 0 THEN MarkCalls(duration)
            ELSE << [fn |-> "space", data |-> <<>>, arg |-> duration] >>)
           \o PulseCalls(words, start, pulseCount, freq, i + 1)

parseStringAndSendRacepoint(str) ==
  LET hex == HexOnly(str)
      words == RacepointWords(hex)
      wordCount == Len(words)
      fi == FirstFreqIndex(words, 1)
      freq == IF fi = 0 THEN 0 ELSE words[fi]
      start == fi
      end == TrimEnd(words, start, wordCount)
      pulseCount == end - start
  IN  IF Len(hex) < 8 \/ (Len(hex) % 4) # 0 THEN [ok |-> FALSE, calls |-> <<>>]
      ELSE IF freq = 0 \/ start >= wordCount THEN [ok |-> FALSE, calls |-> <<>>]
      ELSE IF pulseCount = 0 THEN [ok |-> FALSE, calls |-> <<>>]
      ELSE [ok |-> TRUE,
            calls |-> << [fn |-> "enableIROut", data |-> <<>>, arg |-> freq] >>
                      \o PulseCalls(words, start, pulseCount, freq, 0)
                      \o << [fn |-> "space", data |-> <<>>, arg |-> 0] >>]

\* sendCustomCode for a live emitter (em and em->raw are not null)
sendCustomCode(code, encoding) ==
  IF encoding = "pronto" THEN parseStringAndSendPronto(code, 0)
  ELSE IF encoding = "gc" THEN parseStringAndSendGC(code)
  ELSE IF encoding = "racepoint" THEN parseStringAndSendRacepoint(code)
  ELSE [ok |-> FALSE, calls |-> <<>>]

\* "38000,1,69"
CodeGcOn == <<"3", "8", "0", "0", "0", ",", "1", ",", "6", "9">>

\* "sendir,1:1,1,38000,1,42"
CodeGcOff ==
  GCPrefix1 \o GCPrefix2 \o <<"3", "8", "0", "0", "0", ",", "1", ",", "4", "2">>

\* "0000 006D 0001 0000 0010 0020"
CodePronto ==
  <<"0", "0", "0", "0", " ", "0", "0", "6", "D", " ", "0", "0", "0", "1", " ",
    "0", "0", "0", "0", " ", "0", "0", "1", "0", " ", "0", "0", "2", "0">>

\* ", ": separators only, no decoder accepts it
CodeBad == <<",", " ">>

\* "947000F20010": carrier 38000 Hz, pulses 242 and 16
CodeRacepoint == <<"9", "4", "7", "0", "0", "0", "F", "2", "0", "0", "1", "0">>

\* the code strings and encoding names the model feeds in
ModelCodes == {<<>>, CodeGcOn, CodeGcOff, CodePronto, CodeBad, CodeRacepoint}

ModelEncodings == {"", "gc", "pronto", "racepoint"}

\* sendCustomCode on the model's codes, computed once
DecodeMemo ==
  [ce \in ModelCodes \X ModelEncodings |-> sendCustomCode(ce[1], ce[2])]

\* sendCustomCode(code, encoding)
SendCode(code, encoding) ==
  IF <<code, encoding>> \in DOMAIN DecodeMemo
  THEN DecodeMemo[<<code, encoding>>]
  ELSE sendCustomCode(code, encoding)

\* ------------------------------------------------------------------------
\* JSON values and the ArduinoJson accessors the program uses
\* ------------------------------------------------------------------------
JNone == [k |-> "none", s |-> "", n |-> 0, b |-> FALSE]

JStr(str) == [k |-> "str", s |-> str, n |-> 0, b |-> FALSE]

\* an integer literal
JInt(i) == [k |-> "int", s |-> "", n |-> i, b |-> FALSE]

\* a decimal literal, in hundredths
JFloat(h) == [k |-> "float", s |-> "", n |-> h, b |-> FALSE]

JBool(v) == [k |-> "bool", s |-> "", n |-> 0, b |-> v]

\* doc[key] | "default": the member when it is a string, else the default
OrStr(v, def) == IF v.k = "str" THEN v.s ELSE def

\* doc[key] | <int default>: the member when it is an integer
OrInt(v, def) == IF v.k = "int" THEN v.n ELSE def

\* doc[key].is<float>() (true of every number)
IsNumber(v) == v.k \in {"int", "float"}

\* doc[key].as<float>() of a number
AsFloat(v) == IF v.k = "int" THEN JsonToFloat(100 * v.n) ELSE JsonToFloat(v.n)

\* doc[key] | <float default>
OrFloat(v, def) == IF IsNumber(v) THEN AsFloat(v) ELSE def

\* ------------------------------------------------------------------------
\* String helpers of the command processor
\* ------------------------------------------------------------------------
\* String::toLowerCase() on the words the model feeds in
ToLowerCase(str) ==
  CASE str = "HEAT" -> "heat"
    [] str = "Cool" -> "cool"
    [] str = "OFF" -> "off"
    [] str = "High" -> "high"
    [] str = "ON" -> "on"
    [] OTHER -> str

\* IRac::strToBool(str, def)
strToBool(str, def) ==
  LET l == ToLowerCase(str)
  IN  IF l \in {"on", "1", "yes", "true"} THEN TRUE
      ELSE IF l \in {"off", "0", "no", "false"} THEN FALSE
      ELSE def

\* IRac::strToOpmode(str), default kAuto
strToOpmode(str) ==
  LET l == ToLowerCase(str)
  IN  IF l = "off" THEN "kOff"
      ELSE IF l = "cool" THEN "kCool"
      ELSE IF l = "heat" THEN "kHeat"
      ELSE IF l = "dry" THEN "kDry"
      ELSE IF l = "fan" THEN "kFan"
      ELSE "kAuto"

\* IRac::strToFanspeed(str), default kAuto
strToFanspeed(str) ==
  LET l == ToLowerCase(str)
  IN  IF l = "min" THEN "kMin"
      ELSE IF l = "low" THEN "kLow"
      ELSE IF l = "medium" THEN "kMedium"
      ELSE IF l = "high" THEN "kHigh"
      ELSE IF l = "max" THEN "kMax"
      ELSE "kAuto"

\* protocols IRac::isProtocolSupported(strToDecodeType(name)) accepts
SupportedProtocols == {"DAIKIN", "COOLIX"}

\* normalizeMode without the check against the known names
normalizeModeRaw(in) == ToLowerCase(in)

normalizeMode(in) ==
  LET out == ToLowerCase(in)
  IN  IF out \in {"cool", "heat", "dry", "fan", "off"} THEN out ELSE "auto"

normalizeFan(in) ==
  LET out == ToLowerCase(in)
  IN  IF out \in {"min", "low", "medium", "high", "max"} THEN out ELSE "auto"

opmodeToString(mode) ==
  CASE mode = "kCool" -> "cool"
    [] mode = "kHeat" -> "heat"
    [] mode = "kDry" -> "dry"
    [] mode = "kFan" -> "fan"
    [] mode = "kOff" -> "off"
    [] OTHER -> "auto"

fanToString(fan) ==
  CASE fan = "kMin" -> "min"
    [] fan = "kLow" -> "low"
    [] fan = "kMedium" -> "medium"
    [] fan = "kHigh" -> "high"
    [] fan = "kMax" -> "max"
    [] OTHER -> "auto"

\* ------------------------------------------------------------------------
\* Runtime state records
\* ------------------------------------------------------------------------
\* HvacRuntimeState(): the member initializers of the struct
HvacRuntimeState ==
  [initialized |-> FALSE, power |-> FALSE, mode |-> "off",
   setpoint |-> kDefaultTemp, currentTemp |-> kDefaultTemp,
   fan |-> "auto", light |-> FALSE]

\* the diff without the fan
hvacStateChangedNoFan(a, b) ==
  IF a.initialized # b.initialized THEN TRUE
  ELSE IF ~a.initialized /\ ~b.initialized THEN FALSE
  ELSE \/ a.power # b.power
       \/ a.mode # b.mode
       \/ a.light # b.light
       \/ floatChanged(a.setpoint, b.setpoint)
       \/ floatChanged(a.currentTemp, b.currentTemp)

hvacStateChanged(a, b) ==
  IF a.initialized # b.initialized THEN TRUE
  ELSE IF ~a.initialized /\ ~b.initialized THEN FALSE
  ELSE \/ a.power # b.power
       \/ a.mode # b.mode
       \/ a.fan # b.fan
       \/ a.light # b.light
       \/ floatChanged(a.setpoint, b.setpoint)
       \/ floatChanged(a.currentTemp, b.currentTemp)

\* the record ensureHvacStateInitialized leaves in the table for st
ensureHvacStateInitialized(st) ==
  IF st.initialized THEN st
  ELSE [initialized |-> TRUE, power |-> FALSE, mode |-> "off",
        setpoint |-> kDefaultTemp, currentTemp |-> kDefaultTemp,
        fan |-> "auto", light |-> FALSE]

\* a state object reporting the stored currentTemp
writeStateJsonStored(id, hvacState) ==
  [type |-> "state", id |-> id,
   power |-> IF hvacState.power THEN "on" ELSE "off",
   mode |-> hvacState.mode,
   setpoint |-> hvacState.setpoint,
   current_temp |-> hvacState.currentTemp,
   fan |-> hvacState.fan,
   light |-> IF hvacState.light THEN "on" ELSE "off"]

\* the JSON object writeStateJson fills in
writeStateJson(id, hvacState) ==
  [type |-> "state", id |-> id,
   power |-> IF hvacState.power THEN "on" ELSE "off",
   mode |-> hvacState.mode,
   setpoint |-> hvacState.setpoint,
   current_temp |-> hvacState.setpoint,
   fan |-> hvacState.fan,
   light |-> IF hvacState.light THEN "on" ELSE "off"]

\* the member names of a state object
StateKeys ==
  {"type", "id", "power", "mode", "setpoint", "current_temp", "fan", "light"}

NoMsg ==
  [type |-> "none", id |-> "", power |-> "", mode |-> "", setpoint |-> 0,
   current_temp |-> 0, fan |-> "", light |-> ""]

\* ------------------------------------------------------------------------
\* Replies and events
\* ------------------------------------------------------------------------
\* A reply document: the member names of the top-level object (none for an
\* array), the values of "ok" and "error" when present, and the state
\* objects it carries.
RespError(code) ==
  [keys |-> {"ok", "error"}, ok |-> FALSE, error |-> code, states |-> <<>>]

RespOk(members) ==
  [keys |-> {"ok"} \cup members, ok |-> TRUE, error |-> "", states |-> <<>>]

\* resp.to<JsonObject>() followed by writeStateJson: the earlier members of
\* resp are dropped
RespState(msg) ==
  [keys |-> StateKeys, ok |-> FALSE, error |-> "", states |-> <<msg>>]

\* resp.to<JsonArray>() filled with state objects
RespStates(msgs) ==
  [keys |-> {}, ok |-> FALSE, error |-> "", states |-> msgs]

NoResp == [keys |-> {}, ok |-> FALSE, error |-> "", states |-> <<>>]

\* One observable step of a handler.  ev is one of
\*   "send_raw"  sendCustomCode invoked on emitter slot
\*   "send_ac"   IRac::sendAc invoked on emitter slot
\*   "commit"    hvacStates[idx] assigned the new state
\*   "broadcast" broadcastStateToTelnetClients called, excluding slot
\*   "push"      a state object written to telnet slot
\*   "reply"     the reply written to telnet slot (-1: the web client)
Ev(ev, slot, idx, msg) == [ev |-> ev, slot |-> slot, idx |-> idx, msg |-> msg]

\* ------------------------------------------------------------------------
\* Lookups
\* ------------------------------------------------------------------------
\* 0-based index of the first device with this id, -1 when none
RECURSIVE FindFrom(_, _, _)
FindFrom(hvacs, id, i) ==
  IF i > Len(hvacs) THEN -1
  ELSE IF hvacs[i].id = id THEN i - 1
  ELSE FindFrom(hvacs, id, i + 1)

findHvacIndexById(cfg, id) == FindFrom(cfg.hvacs, id, 1)

\* the emitter index getEmitter resolves to, -1 for nullptr; the parameter
\* is a uint8_t
getEmitter(idx, emCount) ==
  IF (idx % 256) >= emCount THEN -1 ELSE idx % 256

RECURSIVE FindTempFrom(_, _, _)
FindTempFrom(temps, tempC, i) ==
  IF i > Len(temps) THEN <<>>
  ELSE IF temps[i].tempC = tempC THEN temps[i].code
  ELSE FindTempFrom(temps, tempC, i + 1)

findCustomTempCode(hvac, tempC) == FindTempFrom(hvac.customTemps, tempC, 1)

\* ------------------------------------------------------------------------
\* Observer pool helpers
\* ------------------------------------------------------------------------
Slots == 0..(kMaxTelnetClients - 1)

\* !c || !c.connected() is false
IsLive(c) == c = "live"

\* the writes of broadcastStateToTelnetClients without the i == excludeSlot
\* test
RECURSIVE BroadcastAllFrom(_, _, _, _)
BroadcastAllFrom(msg, excludeSlot, clients, i) ==
  IF i >= kMaxTelnetClients THEN <<>>
  ELSE (IF ~IsLive(clients[i]) THEN <<>>
        ELSE << Ev("push", i, -1, msg) >>)
       \o BroadcastAllFrom(msg, excludeSlot, clients, i + 1)

\* the writes of broadcastStateToTelnetClients, slots i .. kMaxTelnetClients-1
RECURSIVE BroadcastFrom(_, _, _, _)
BroadcastFrom(msg, excludeSlot, clients, i) ==
  IF i >= kMaxTelnetClients THEN <<>>
  ELSE (IF i = excludeSlot \/ ~IsLive(clients[i]) THEN <<>>
        ELSE << Ev("push", i, -1, msg) >>)
       \o BroadcastFrom(msg, excludeSlot, clients, i + 1)

broadcastStateToTelnetClients(id, state, excludeSlot, clients) ==
  << Ev("broadcast", excludeSlot, -1, writeStateJson(id, state)) >>
    \o BroadcastFrom(writeStateJson(id, state), excludeSlot, clients, 0)

\* ------------------------------------------------------------------------
\* processCommand
\* ------------------------------------------------------------------------
\* what one call leaves behind: the returned flag, the reply document, the
\* hvacStates table and the observable steps it made, in order
Outcome(ret, resp, states, events) ==
  [ret |-> ret, resp |-> resp, states |-> states, events |-> events]

\* light = previous.light, overridden by a non-null "light" member
ResolveLight(doc, previous) ==
  IF doc.light.k = "none" THEN previous.light
  ELSE IF doc.light.k = "bool" THEN doc.light.b
  ELSE strToBool(OrStr(doc.light, IF previous.light THEN "true" ELSE "false"),
                 FALSE)

\* currentTemp following the requested temperature when the command gives
\* no current_temp
ResolveCurrentTempFromTemp(doc, previous, nextState, temp) ==
  IF IsNumber(doc.current_temp) THEN AsFloat(doc.current_temp)
  ELSE temp

\* the currentTemp a send leaves in nextState
ResolveCurrentTemp(doc, previous, nextState, temp) ==
  IF IsNumber(doc.current_temp) THEN AsFloat(doc.current_temp)
  ELSE IF ~previous.initialized THEN temp
  ELSE nextState.currentTemp

\* the tail of send broadcasting without the hvacStateChanged test
CommitNoDiff(id, hvacIndex, previous, nextState, sourceTelnetSlot, states, clients, sendEvent) ==
  LET committed == [states EXCEPT ![hvacIndex] = nextState]
  IN  Outcome(TRUE, RespState(writeStateJson(id, committed[hvacIndex])),
        committed,
        << sendEvent, Ev("commit", -1, hvacIndex, NoMsg) >>
          \o broadcastStateToTelnetClients(id, committed[hvacIndex],
                                           sourceTelnetSlot, clients))

\* the tail of send broadcasting before the assignment to hvacStates
CommitPushFirst(id, hvacIndex, previous, nextState, sourceTelnetSlot, states, clients, sendEvent) ==
  LET committed == [states EXCEPT ![hvacIndex] = nextState]
  IN  Outcome(TRUE, RespState(writeStateJson(id, committed[hvacIndex])),
        committed,
        << sendEvent >>
          \o (IF hvacStateChanged(previous, committed[hvacIndex])
              THEN broadcastStateToTelnetClients(id, committed[hvacIndex],
                                                 sourceTelnetSlot, clients)
              ELSE <<>>)
          \o << Ev("commit", -1, hvacIndex, NoMsg) >>)

\* the tail shared by both branches of send, after the send primitive
\* reported ok: commit, write the reply, broadcast when changed
CommitAndBroadcast(id, hvacIndex, previous, nextState, sourceTelnetSlot, states, clients, sendEvent) ==
  LET committed == [states EXCEPT ![hvacIndex] = nextState]
  IN  Outcome(TRUE, RespState(writeStateJson(id, committed[hvacIndex])),
        committed,
        << sendEvent, Ev("commit", -1, hvacIndex, NoMsg) >>
          \o (IF hvacStateChanged(previous, committed[hvacIndex])
              THEN broadcastStateToTelnetClients(id, committed[hvacIndex],
                                                 sourceTelnetSlot, clients)
              ELSE <<>>))

\* send to a custom device with the command's own code preferred to the
\* off code
SendCustomOwnCode(doc, id, hvac, hvacIndex, em, previous, sourceTelnetSlot, states, clients) ==
  LET nextState0 == previous
      encoding == OrStr(doc.encoding, hvac.customEncoding)
      power0 == strToBool(OrStr(doc.power, "on"), FALSE)
      command == OrStr(doc.command, "")
      power == IF command = "off" THEN FALSE ELSE power0
      useTable == power /\ Len(doc.code) = 0 /\ doc.temp.k = "int"
      code == IF Len(doc.code) # 0 THEN doc.code
              ELSE IF ~power THEN hvac.customOff
              ELSE IF useTable THEN findCustomTempCode(hvac, OrInt(doc.temp, 0))
              ELSE doc.code
      modeStr == normalizeMode(OrStr(doc.mode, nextState0.mode))
      fanStr == normalizeFan(OrStr(doc.fan, nextState0.fan))
      temp == OrFloat(doc.temp, nextState0.setpoint)
      light == ResolveLight(doc, previous)
      nextState ==
        [initialized |-> TRUE, power |-> power,
         mode |-> IF power THEN modeStr ELSE "off",
         setpoint |-> temp, fan |-> fanStr, light |-> light,
         currentTemp |-> ResolveCurrentTemp(doc, previous, nextState0, temp)]
      sent == SendCode(code, encoding)
  IN  IF ~power /\ Len(hvac.customOff) = 0
        THEN Outcome(FALSE, RespError("missing_custom_off"), states, <<>>)
      ELSE IF useTable /\ Len(code) = 0
        THEN Outcome(FALSE, RespError("missing_temp_code"), states, <<>>)
      ELSE IF Len(code) = 0
        THEN Outcome(FALSE, RespError("missing_code"), states, <<>>)
      ELSE IF ~sent.ok
        THEN Outcome(FALSE, RespError("send_failed"), states,
                     << Ev("send_raw", em, hvacIndex, NoMsg) >>)
      ELSE CommitAndBroadcast(id, hvacIndex, previous, nextState,
             sourceTelnetSlot, states, clients,
             Ev("send_raw", em, hvacIndex, NoMsg))

\* send to a named-protocol device assigning hvacStates before sendAc
\* reports
SendNamedCommitFirst(doc, id, hvac, hvacIndex, em, previous, sourceTelnetSlot, states, clients, acOk) ==
  LET nextState0 == previous
      power0 == strToBool(OrStr(doc.power, "on"), FALSE)
      command == OrStr(doc.command, "")
      power == IF command = "off" THEN FALSE ELSE power0
      mode0 == strToOpmode(OrStr(doc.mode, "auto"))
      mode == IF ~power THEN "kOff" ELSE mode0
      temp == OrFloat(doc.temp, kDefaultTemp)
      fan == strToFanspeed(OrStr(doc.fan, "auto"))
      light == ResolveLight(doc, previous)
      nextState ==
        [initialized |-> TRUE, power |-> power,
         mode |-> opmodeToString(mode),
         setpoint |-> temp, fan |-> fanToString(fan), light |-> light,
         currentTemp |-> ResolveCurrentTemp(doc, previous, nextState0, temp)]
  IN  IF hvac.protocol \notin SupportedProtocols
        THEN Outcome(FALSE, RespError("unsupported_protocol"), states, <<>>)
      ELSE IF ~acOk
        THEN Outcome(FALSE, RespError("send_failed"),
                     [states EXCEPT ![hvacIndex] = nextState],
                     << Ev("send_ac", em, hvacIndex, NoMsg) >>)
      ELSE CommitAndBroadcast(id, hvacIndex, previous, nextState,
             sourceTelnetSlot, states, clients,
             Ev("send_ac", em, hvacIndex, NoMsg))

\* send to a named-protocol device storing the mode of the command when
\* the power is off
SendNamedKeepMode(doc, id, hvac, hvacIndex, em, previous, sourceTelnetSlot, states, clients, acOk) ==
  LET nextState0 == previous
      power0 == strToBool(OrStr(doc.power, "on"), FALSE)
      command == OrStr(doc.command, "")
      power == IF command = "off" THEN FALSE ELSE power0
      mode0 == strToOpmode(OrStr(doc.mode, "auto"))
      mode == mode0
      temp == OrFloat(doc.temp, kDefaultTemp)
      fan == strToFanspeed(OrStr(doc.fan, "auto"))
      light == ResolveLight(doc, previous)
      nextState ==
        [initialized |-> TRUE, power |-> power,
         mode |-> opmodeToString(mode),
         setpoint |-> temp, fan |-> fanToString(fan), light |-> light,
         currentTemp |-> ResolveCurrentTemp(doc, previous, nextState0, temp)]
  IN  IF hvac.protocol \notin SupportedProtocols
        THEN Outcome(FALSE, RespError("unsupported_protocol"), states, <<>>)
      ELSE IF ~acOk
        THEN Outcome(FALSE, RespError("send_failed"), states,
                     << Ev("send_ac", em, hvacIndex, NoMsg) >>)
      ELSE CommitAndBroadcast(id, hvacIndex, previous, nextState,
             sourceTelnetSlot, states, clients,
             Ev("send_ac", em, hvacIndex, NoMsg))

\* send to a custom device; states is the table after the lazy
\* initialization, previous = nextState = states[hvacIndex]
SendCustom(doc, id, hvac, hvacIndex, em, previous, sourceTelnetSlot, states, clients) ==
  LET nextState0 == previous
      encoding == OrStr(doc.encoding, hvac.customEncoding)
      power0 == strToBool(OrStr(doc.power, "on"), FALSE)
      command == OrStr(doc.command, "")
      power == IF command = "off" THEN FALSE ELSE power0
      useTable == power /\ Len(doc.code) = 0 /\ doc.temp.k = "int"
      code == IF ~power THEN hvac.customOff
              ELSE IF useTable THEN findCustomTempCode(hvac, OrInt(doc.temp, 0))
              ELSE doc.code
      modeStr == normalizeMode(OrStr(doc.mode, nextState0.mode))
      fanStr == normalizeFan(OrStr(doc.fan, nextState0.fan))
      temp == OrFloat(doc.temp, nextState0.setpoint)
      light == ResolveLight(doc, previous)
      nextState ==
        [initialized |-> TRUE, power |-> power,
         mode |-> IF power THEN modeStr ELSE "off",
         setpoint |-> temp, fan |-> fanStr, light |-> light,
         currentTemp |-> ResolveCurrentTemp(doc, previous, nextState0, temp)]
      sent == SendCode(code, encoding)
  IN  IF ~power /\ Len(hvac.customOff) = 0
        THEN Outcome(FALSE, RespError("missing_custom_off"), states, <<>>)
      ELSE IF useTable /\ Len(code) = 0
        THEN Outcome(FALSE, RespError("missing_temp_code"), states, <<>>)
      ELSE IF Len(code) = 0
        THEN Outcome(FALSE, RespError("missing_code"), states, <<>>)
      ELSE IF ~sent.ok
        THEN Outcome(FALSE, RespError("send_failed"), states,
                     << Ev("send_raw", em, hvacIndex, NoMsg) >>)
      ELSE CommitAndBroadcast(id, hvacIndex, previous, nextState,
             sourceTelnetSlot, states, clients,
             Ev("send_raw", em, hvacIndex, NoMsg))

\* send to a named-protocol device; acOk is what IRac::sendAc returns
SendNamed(doc, id, hvac, hvacIndex, em, previous, sourceTelnetSlot, states, clients, acOk) ==
  LET nextState0 == previous
      power0 == strToBool(OrStr(doc.power, "on"), FALSE)
      command == OrStr(doc.command, "")
      power == IF command = "off" THEN FALSE ELSE power0
      mode0 == strToOpmode(OrStr(doc.mode, "auto"))
      mode == IF ~power THEN "kOff" ELSE mode0
      temp == OrFloat(doc.temp, kDefaultTemp)
      fan == strToFanspeed(OrStr(doc.fan, "auto"))
      light == ResolveLight(doc, previous)
      nextState ==
        [initialized |-> TRUE, power |-> power,
         mode |-> opmodeToString(mode),
         setpoint |-> temp, fan |-> fanToString(fan), light |-> light,
         currentTemp |-> ResolveCurrentTemp(doc, previous, nextState0, temp)]
  IN  IF hvac.protocol \notin SupportedProtocols
        THEN Outcome(FALSE, RespError("unsupported_protocol"), states, <<>>)
      ELSE IF ~acOk
        THEN Outcome(FALSE, RespError("send_failed"), states,
                     << Ev("send_ac", em, hvacIndex, NoMsg) >>)
      ELSE CommitAndBroadcast(id, hvacIndex, previous, nextState,
             sourceTelnetSlot, states, clients,
             Ev("send_ac", em, hvacIndex, NoMsg))

\* the table after ensureHvacStateInitialized(i) for every configured i
InitializeAll(cfg, states) ==
  [i \in DOMAIN states |->
     IF i < Len(cfg.hvacs) THEN ensureHvacStateInitialized(states[i])
     ELSE states[i]]

\* one state object per configured device, in table order
AllStateMsgs(cfg, states) ==
  [i \in 1..Len(cfg.hvacs) |-> writeStateJson(cfg.hvacs[i].id, states[i - 1])]

\* lines 1406-1412 of send: the table after the lazy initialization
LazyInit(states, hvacIndex) ==
  [states EXCEPT ![hvacIndex] = ensureHvacStateInitialized(states[hvacIndex])]

\* send with the lazy initialization ahead of the emitter check
CmdSendInitFirst(doc, sourceTelnetSlot, acOk, cfg, emCount, states, clients) ==
  LET id == OrStr(doc.id, "")
      hvacIndex == findHvacIndexById(cfg, id)
      hvac == cfg.hvacs[hvacIndex + 1]
      em == getEmitter(hvac.emitterIndex, emCount)
      states1 == LazyInit(states, hvacIndex)
      previous == states1[hvacIndex]
  IN  IF id = ""
        THEN Outcome(FALSE, RespError("missing_id"), states, <<>>)
      ELSE IF hvacIndex < 0
        THEN Outcome(FALSE, RespError("unknown_id"), states, <<>>)
      ELSE IF em < 0
        THEN Outcome(FALSE, RespError("invalid_emitter"), states1, <<>>)
      ELSE IF hvac.isCustom \/ hvac.protocol = "CUSTOM"
        THEN SendCustom(doc, id, hvac, hvacIndex, em, previous,
                        sourceTelnetSlot, states1, clients)
      ELSE SendNamed(doc, id, hvac, hvacIndex, em, previous,
                     sourceTelnetSlot, states1, clients, acOk)

CmdSend(doc, sourceTelnetSlot, acOk, cfg, emCount, states, clients) ==
  LET id == OrStr(doc.id, "")
      hvacIndex == findHvacIndexById(cfg, id)
      hvac == cfg.hvacs[hvacIndex + 1]
      em == getEmitter(hvac.emitterIndex, emCount)
      states1 == LazyInit(states, hvacIndex)
      previous == states1[hvacIndex]
  IN  IF id = ""
        THEN Outcome(FALSE, RespError("missing_id"), states, <<>>)
      ELSE IF hvacIndex < 0
        THEN Outcome(FALSE, RespError("unknown_id"), states, <<>>)
      ELSE IF em < 0
        THEN Outcome(FALSE, RespError("invalid_emitter"), states, <<>>)
      ELSE IF hvac.isCustom \/ hvac.protocol = "CUSTOM"
        THEN SendCustom(doc, id, hvac, hvacIndex, em, previous,
                        sourceTelnetSlot, states1, clients)
      ELSE SendNamed(doc, id, hvac, hvacIndex, em, previous,
                     sourceTelnetSlot, states1, clients, acOk)

\* get answering with a freshly initialized record whatever is stored
CmdGetReset(doc, cfg, states) ==
  LET id == OrStr(doc.id, "")
      hvacIndex == findHvacIndexById(cfg, id)
      states1 == [states EXCEPT
                    ![hvacIndex] = ensureHvacStateInitialized(HvacRuntimeState)]
  IN  IF id = ""
        THEN Outcome(FALSE, RespError("missing_id"), states, <<>>)
      ELSE IF hvacIndex < 0
        THEN Outcome(FALSE, RespError("unknown_id"), states, <<>>)
      ELSE Outcome(TRUE, RespState(writeStateJson(id, states1[hvacIndex])),
                   states1, <<>>)

CmdGet(doc, cfg, states) ==
  LET id == OrStr(doc.id, "")
      hvacIndex == findHvacIndexById(cfg, id)
      states1 == LazyInit(states, hvacIndex)
  IN  IF id = ""
        THEN Outcome(FALSE, RespError("missing_id"), states, <<>>)
      ELSE IF hvacIndex < 0
        THEN Outcome(FALSE, RespError("unknown_id"), states, <<>>)
      ELSE Outcome(TRUE, RespState(writeStateJson(id, states1[hvacIndex])),
                   states1, <<>>)

\* raw with a lazy initialization of the first device, as send has
CmdRawTouch(doc, emCount, states) ==
  LET emitterIndex == OrInt(doc.emitter, 0)
      encoding == OrStr(doc.encoding, "pronto")
      em == getEmitter(emitterIndex, emCount)
      sent == SendCode(doc.code, encoding)
  IN  IF em < 0
        THEN Outcome(FALSE, RespError("invalid_emitter"), states, <<>>)
      ELSE Outcome(sent.ok,
             IF sent.ok THEN RespOk({}) ELSE RespError("send_failed"),
             LazyInit(states, 0), << Ev("send_raw", em, -1, NoMsg) >>)

CmdRaw(doc, emCount, states) ==
  LET emitterIndex == OrInt(doc.emitter, 0)
      encoding == OrStr(doc.encoding, "pronto")
      em == getEmitter(emitterIndex, emCount)
      sent == SendCode(doc.code, encoding)
  IN  IF em < 0
        THEN Outcome(FALSE, RespError("invalid_emitter"), states, <<>>)
      ELSE Outcome(sent.ok,
             IF sent.ok THEN RespOk({}) ELSE RespError("send_failed"),
             states, << Ev("send_raw", em, -1, NoMsg) >>)

\* processCommand without the unknown_cmd test: whatever is no other
\* command is taken for a send
processCommandNoUnknown(doc, sourceTelnetSlot, acOk, cfg, emCount, states, clients) ==
  LET cmd == OrStr(doc.cmd, "send")
  IN  IF cmd = "help" THEN Outcome(TRUE, RespOk({"help"}), states, <<>>)
      ELSE IF cmd = "list"
        THEN Outcome(TRUE, RespOk({"emitters", "hvacs"}), states, <<>>)
      ELSE IF cmd = "get" THEN CmdGet(doc, cfg, states)
      ELSE IF cmd = "get_all"
        THEN Outcome(TRUE,
               RespStates(AllStateMsgs(cfg, InitializeAll(cfg, states))),
               InitializeAll(cfg, states), <<>>)
      ELSE IF cmd = "raw" THEN CmdRaw(doc, emCount, states)
      ELSE CmdSend(doc, sourceTelnetSlot, acOk, cfg, emCount, states, clients)

processCommand(doc, sourceTelnetSlot, acOk, cfg, emCount, states, clients) ==
  LET cmd == OrStr(doc.cmd, "send")
  IN  IF cmd = "help" THEN Outcome(TRUE, RespOk({"help"}), states, <<>>)
      ELSE IF cmd = "list"
        THEN Outcome(TRUE, RespOk({"emitters", "hvacs"}), states, <<>>)
      ELSE IF cmd = "get" THEN CmdGet(doc, cfg, states)
      ELSE IF cmd = "get_all"
        THEN Outcome(TRUE,
               RespStates(AllStateMsgs(cfg, InitializeAll(cfg, states))),
               InitializeAll(cfg, states), <<>>)
      ELSE IF cmd = "raw" THEN CmdRaw(doc, emCount, states)
      ELSE IF cmd # "send"
        THEN Outcome(FALSE, RespError("unknown_cmd"), states, <<>>)
      ELSE CmdSend(doc, sourceTelnetSlot, acOk, cfg, emCount, states, clients)

\* ------------------------------------------------------------------------
\* Configurations and inputs of the model
\* ------------------------------------------------------------------------
HvacConfig(id, protocol, emitterIndex, isCustom, customEncoding, customOff, customTemps) ==
  [id |-> id, protocol |-> protocol, emitterIndex |-> emitterIndex,
   model |-> -1, isCustom |-> isCustom, customEncoding |-> customEncoding,
   customOff |-> customOff, customTemps |-> customTemps]

\* a custom GC device with an off code, and a named-protocol device
ConfigA ==
  [emitterCount |-> 2,
   hvacs |-> <<
     HvacConfig("1", "CUSTOM", 0, TRUE, "gc", CodeGcOff,
                << [tempC |-> 24, code |-> CodeGcOn],
                   [tempC |-> 25, code |-> CodeBad] >>),
     HvacConfig("2", "DAIKIN", 1, FALSE, "", <<>>, <<>>) >>]

\* a custom Pronto device without an off code, a device whose protocol the
\* device abstraction does not support, and a device bound to an emitter
\* that does not exist
ConfigB ==
  [emitterCount |-> 1,
   hvacs |-> <<
     HvacConfig("1", "CUSTOM", 0, TRUE, "pronto", <<>>,
                << [tempC |-> 24, code |-> CodePronto] >>),
     HvacConfig("2", "BOGUS", 0, FALSE, "", <<>>, <<>>),
     HvacConfig("3", "DAIKIN", 7, FALSE, "", <<>>, <<>>) >>]

Configs == {ConfigA, ConfigB}

Doc(cmd, id) ==
  [cmd |-> cmd, id |-> id, power |-> JNone, command |-> JNone,
   mode |-> JNone, fan |-> JNone, temp |-> JNone, light |-> JNone,
   current_temp |-> JNone, code |-> <<>>, encoding |-> JNone,
   emitter |-> JNone]

NoDoc == Doc(JNone, JNone)

\* the members a send carries besides cmd and id
SendVariants(d) ==
  { d,
    [d EXCEPT !.power = JStr("off"), !.mode = JStr("bogus")],
    [d EXCEPT !.command = JStr("off"), !.mode = JStr("Cool")],
    [d EXCEPT !.temp = JInt(24)],
    [d EXCEPT !.temp = JInt(25)],
    [d EXCEPT !.temp = JFloat(2404), !.code = CodeGcOn, !.encoding = JStr("gc")],
    [d EXCEPT !.temp = JFloat(2406), !.code = CodeGcOn, !.encoding = JStr("gc"),
              !.mode = JStr("HEAT"), !.fan = JStr("High")],
    [d EXCEPT !.temp = JInt(24), !.mode = JStr("bogus"), !.fan = JStr("bogus")] }

SendDocs ==
  UNION { SendVariants(Doc(JStr("send"), JStr(id))) : id \in {"1", "2"} }
    \cup { Doc(JStr("send"), JNone), Doc(JStr("send"), JStr("9")),
           Doc(JStr("send"), JStr("3")),
           [Doc(JNone, JStr("2")) EXCEPT !.power = JStr("ON")],
           [Doc(JStr("send"), JStr("1")) EXCEPT
              !.command = JStr("off"), !.power = JStr("on"), !.code = CodeBad],
           [Doc(JStr("send"), JStr("1")) EXCEPT !.temp = JFloat(2440)] }

RawDocs ==
  { [Doc(JStr("raw"), JNone) EXCEPT !.code = CodePronto],
    [Doc(JStr("raw"), JNone) EXCEPT !.code = CodePronto, !.emitter = JInt(7)],
    [Doc(JStr("raw"), JNone) EXCEPT !.code = CodePronto, !.emitter = JInt(-1)],
    [Doc(JStr("raw"), JNone) EXCEPT !.code = CodePronto, !.emitter = JInt(256)],
    [Doc(JStr("raw"), JNone) EXCEPT !.code = CodeBad, !.emitter = JInt(0),
                                    !.encoding = JStr("gc")] }

TelnetDocs ==
  SendDocs \cup RawDocs
    \cup { Doc(JStr("help"), JNone), Doc(JStr("list"), JNone),
           Doc(JStr("get_all"), JNone), Doc(JStr("bogus"), JStr("1")),
           Doc(JStr("get"), JNone), Doc(JStr("get"), JStr("1")),
           Doc(JStr("get"), JStr("9")) }

\* the results IRac::sendAc can report for a command
AcResults(doc) == IF doc \in SendDocs THEN BOOLEAN ELSE {TRUE}

\* the arguments of a POST to /hvacs/test; "" is an absent argument and
\* temp is given in hundredths (-1: absent)
HvacForm(id, power, temp, light, code) ==
  [id |-> id, power |-> power, mode |-> "", temp |-> temp, fan |-> "",
   light |-> light, encoding |-> "", code |-> code]

WebForms ==
  { HvacForm("", "", -1, "", <<>>),
    HvacForm("1", "off", -1, "", <<>>),
    HvacForm("1", "", 2406, "on", CodePronto),
    HvacForm("1", "", 2400, "", <<>>),
    HvacForm("2", "", 2406, "", <<>>),
    HvacForm("2", "off", -1, "on", <<>>) }

\* the arguments of a POST to /raw/test
RawForms ==
  { [emitter |-> 0, encoding |-> "racepoint", code |-> CodeRacepoint],
    [emitter |-> 3, encoding |-> "", code |-> CodePronto] }

\* observer pools the engine is exercised with: nobody connected; slots 0
\* and 2 connected, slot 1 gone, slot 3 never used
ClientPatterns ==
  { [i \in 0..(kMaxTelnetClients - 1) |-> "none"],
    [i \in 0..(kMaxTelnetClients - 1) |->
       IF i \in {0, 2} THEN "live" ELSE IF i = 1 THEN "dead" ELSE "none"] }

\* ------------------------------------------------------------------------
\* State
\* ------------------------------------------------------------------------
VARIABLES
  config,              \* Config: emitterCount and the hvacs[0..hvacCount-1]
  emitterRuntimeCount, \* number of live entries of emitters[]
  hvacStates,          \* hvacStates[0..MaxHvacs-1]
  telnetClients,       \* telnetClients[0..3]: "none", "live" or "dead"
  last,                \* the handler that ran last, its input and its reply
  trace,               \* the observable steps of that handler, in order
  fn                   \* a pure function applied on its own: inputs, result

vars ==
  <<config, emitterRuntimeCount, hvacStates, telnetClients, last, trace, fn>>

\* op: "setup", "telnet" (a command line), "badline" (a line that is not
\* JSON), "web", "accept", "refuse", "disconnect".  again: the handler run
\* before this one was given the same command and returned true.
Last(op, src, doc, resp, ret) ==
  [op |-> op, src |-> src, doc |-> doc, resp |-> resp, ret |-> ret,
   again |-> last.op \in {"telnet", "web"} /\ op \in {"telnet", "web"}
             /\ last.doc = doc /\ last.ret]

NoFn == [op |-> "none", a |-> HvacRuntimeState, b |-> HvacRuntimeState,
         changed |-> FALSE]

\* setup(): loadConfig, rebuildEmitters, the static initializers
Init ==
  /\ config \in Configs
  /\ emitterRuntimeCount = config.emitterCount
  /\ hvacStates = [i \in 0..(MaxHvacs - 1) |-> HvacRuntimeState]
  /\ telnetClients \in ClientPatterns
  /\ last = [op |-> "setup", src |-> -1, doc |-> NoDoc, resp |-> NoResp,
             ret |-> TRUE, again |-> FALSE]
  /\ trace = <<>>
  /\ fn = NoFn

\* setup() with nobody connected yet
InitPool ==
  /\ Init
  /\ telnetClients = [i \in Slots |-> "none"]

\* ------------------------------------------------------------------------
\* Handlers
\* ------------------------------------------------------------------------
\* handleTelnetLine for a line of slot i that parses as doc
TelnetLine(i, doc, acOk) ==
  /\ IsLive(telnetClients[i])
  /\ \E out \in {processCommand(doc, i, acOk, config, emitterRuntimeCount,
                               hvacStates, telnetClients)} :
         /\ hvacStates' = out.states
         /\ trace' = out.events \o << Ev("reply", i, -1, NoMsg) >>
         /\ last' = Last("telnet", i, doc, out.resp, out.ret)
  /\ UNCHANGED <<config, emitterRuntimeCount, telnetClients, fn>>

\* handleTelnetLine for a line of slot i that does not parse
TelnetInvalidJson(i) ==
  /\ IsLive(telnetClients[i])
  /\ trace' = << Ev("reply", i, -1, NoMsg) >>
  /\ last' = Last("badline", i, NoDoc, RespError("invalid_json"), FALSE)
  /\ UNCHANGED <<config, emitterRuntimeCount, hvacStates, telnetClients, fn>>

\* the command handleHvacTest assembles from the form arguments
HvacTestDoc(form) ==
  [cmd |-> JStr("send"), id |-> JStr(form.id),
   power |-> IF form.power # "" THEN JStr(form.power) ELSE JNone,
   command |-> JNone,
   mode |-> IF form.mode # "" THEN JStr(form.mode) ELSE JNone,
   fan |-> IF form.fan # "" THEN JStr(form.fan) ELSE JNone,
   temp |-> IF form.temp >= 0 THEN JFloat(form.temp) ELSE JNone,
   light |-> IF form.light # "" THEN JStr(form.light) ELSE JNone,
   current_temp |-> JNone,
   code |-> form.code,
   encoding |-> IF form.encoding # "" THEN JStr(form.encoding) ELSE JNone,
   emitter |-> JNone]

\* handleHvacTest, once authorized
handleHvacTest(form, acOk) ==
  /\ \E doc \in {HvacTestDoc(form)} :
     \E out \in {processCommand(doc, -1, acOk, config, emitterRuntimeCount,
                                hvacStates, telnetClients)} :
         /\ hvacStates' = out.states
         /\ trace' = out.events \o << Ev("reply", -1, -1, NoMsg) >>
         /\ last' = Last("web", -1, doc, out.resp, out.ret)
  /\ UNCHANGED <<config, emitterRuntimeCount, telnetClients, fn>>

\* the command handleRawTest assembles from the form arguments
RawTestDoc(form) ==
  [Doc(JStr("raw"), JNone) EXCEPT
     !.emitter = JInt(form.emitter),
     !.encoding = IF form.encoding # "" THEN JStr(form.encoding) ELSE JNone,
     !.code = form.code]

\* handleRawTest, once authorized
handleRawTest(form) ==
  /\ \E doc \in {RawTestDoc(form)} :
     \E out \in {processCommand(doc, -1, FALSE, config, emitterRuntimeCount,
                                hvacStates, telnetClients)} :
         /\ hvacStates' = out.states
         /\ trace' = out.events \o << Ev("reply", -1, -1, NoMsg) >>
         /\ last' = Last("web", -1, doc, out.resp, out.ret)
  /\ UNCHANGED <<config, emitterRuntimeCount, telnetClients, fn>>

\* the first slot never used, a closed connection keeping its slot
RECURSIVE FirstUnusedFrom(_, _)
FirstUnusedFrom(clients, i) ==
  IF i >= kMaxTelnetClients THEN -1
  ELSE IF clients[i] = "none" THEN i
  ELSE FirstUnusedFrom(clients, i + 1)

\* the slot handleTelnet gives to an incoming connection, -1 when all are
\* live
RECURSIVE FirstFreeFrom(_, _)
FirstFreeFrom(clients, i) ==
  IF i >= kMaxTelnetClients THEN -1
  ELSE IF ~IsLive(clients[i]) THEN i
  ELSE FirstFreeFrom(clients, i + 1)

\* the writes of sendAllStatesToTelnetClient to slot i
SnapshotPushes(cfg, states, i) ==
  [k \in 1..Len(cfg.hvacs) |->
     Ev("push", i, -1, AllStateMsgs(cfg, InitializeAll(cfg, states))[k])]

\* handleTelnet with an incoming connection pending: the accept part
TelnetAccept ==
  LET i == FirstFreeFrom(telnetClients, 0)
  IN  IF i >= 0
      THEN /\ telnetClients' = [telnetClients EXCEPT ![i] = "live"]
           /\ hvacStates' = InitializeAll(config, hvacStates)
           /\ trace' = SnapshotPushes(config, hvacStates, i)
           /\ last' = Last("accept", i, NoDoc, NoResp, TRUE)
           /\ UNCHANGED <<config, emitterRuntimeCount, fn>>
      ELSE /\ trace' = <<>>
           /\ last' = Last("refuse", -1, NoDoc, NoResp, FALSE)
           /\ UNCHANGED <<config, emitterRuntimeCount, hvacStates,
                          telnetClients, fn>>

\* the peer of slot i closes its connection
TelnetDisconnect(i) ==
  /\ IsLive(telnetClients[i])
  /\ telnetClients' = [telnetClients EXCEPT ![i] = "dead"]
  /\ trace' = <<>>
  /\ last' = Last("disconnect", i, NoDoc, NoResp, TRUE)
  /\ UNCHANGED <<config, emitterRuntimeCount, hvacStates, fn>>

\* the commands of the engine, under a fixed observer pool
Next ==
  \/ \E i \in 0..MaxSrcSlot, doc \in TelnetDocs :
       \E acOk \in AcResults(doc) : TelnetLine(i, doc, acOk)
  \/ \E i \in 0..MaxSrcSlot : TelnetInvalidJson(i)
  \/ \E form \in WebForms, acOk \in BOOLEAN : handleHvacTest(form, acOk)
  \/ \E form \in RawForms : handleRawTest(form)

Spec == Init /\ [][Next]_vars

\* the commands and forms the smaller specifications are exercised with:
\* pool and config are telnet lines, seen the lines and forms the lines and
\* the POSTs to /hvacs/test of the observers' view, reqs what the web
\* server has pending in a pass of loop()
Exercise ==
  [pool |-> { [Doc(JStr("send"), JStr("2")) EXCEPT !.power = JStr("off")],
              [Doc(JStr("send"), JStr("2")) EXCEPT !.temp = JFloat(2406)],
              Doc(JStr("get"), JStr("1")) },
   config |-> { Doc(JStr("get_all"), JNone),
                [Doc(JStr("send"), JStr("1")) EXCEPT !.temp = JInt(25)] },
   seen |-> { Doc(JStr("send"), JStr("2")),
              [Doc(JStr("send"), JStr("2")) EXCEPT !.power = JStr("off")],
              [Doc(JStr("send"), JStr("2")) EXCEPT !.temp = JFloat(2404)],
              [Doc(JStr("send"), JStr("2")) EXCEPT !.temp = JFloat(2406)],
              [Doc(JStr("send"), JStr("2")) EXCEPT !.fan = JStr("high")],
              [Doc(JStr("send"), JStr("2")) EXCEPT
                 !.current_temp = JFloat(2600)],
              [Doc(JStr("send"), JStr("2")) EXCEPT
                 !.current_temp = JStr("26"), !.light = JStr("on")],
              Doc(JStr("get"), JStr("2")) },
   forms |-> { HvacForm("2", "", 2500, "", <<>>),
               HvacForm("1", "", -1, "", CodeGcOn) },
   reqs |-> { <<>>, << HvacForm("2", "", 2406, "", <<>>) >> }]

\* the observer pool: connections come and go between commands
NextPool ==
  \/ TelnetAccept
  \/ \E i \in Slots : TelnetDisconnect(i)
  \/ \E i \in 0..MaxSrcSlot, doc \in Exercise.pool : TelnetLine(i, doc, TRUE)

SpecPool == InitPool /\ [][NextPool]_vars

\* ------------------------------------------------------------------------
\* hvacStateChanged on its own
\* ------------------------------------------------------------------------
\* records send can hand to hvacStateChanged: the default record and
\* committed ones, their setpoints and current temperatures given in
\* hundredths of a degree
DiffStates ==
  {HvacRuntimeState} \cup
  { [initialized |-> TRUE, power |-> p, mode |-> IF p THEN "auto" ELSE "off",
     setpoint |-> JsonToFloat(s), currentTemp |-> JsonToFloat(c),
     fan |-> "auto", light |-> l] :
      p \in BOOLEAN, l \in BOOLEAN,
      s \in {2400, 2404, 2405, 2406, 6400, 6405}, c \in {2400, 2406} }

InitDiff ==
  /\ Init
  /\ config = ConfigA
  /\ telnetClients = [i \in Slots |-> "none"]

\* pick two records
ChooseDiff ==
  /\ fn.op \in {"none", "diff"}
  /\ \E a \in DiffStates, b \in DiffStates :
       fn' = [op |-> "chosen", a |-> a, b |-> b, changed |-> FALSE]
  /\ UNCHANGED <<config, emitterRuntimeCount, hvacStates, telnetClients,
                 last, trace>>

\* hvacStateChanged(fn.a, fn.b)
ApplyDiff ==
  /\ fn.op = "chosen"
  /\ fn' = [fn EXCEPT !.op = "diff", !.changed = hvacStateChanged(fn.a, fn.b)]
  /\ UNCHANGED <<config, emitterRuntimeCount, hvacStates, telnetClients,
                 last, trace>>

NextDiff == ChooseDiff \/ ApplyDiff

SpecDiff == InitDiff /\ [][NextDiff]_vars

\* ------------------------------------------------------------------------
\* The waveform decoders on their own
\* ------------------------------------------------------------------------
\* most words of a racepoint code, tokens of a GC code, characters of a
\* free-form code, data words of a Pronto code
MaxRpWords == 4

MaxGcTokens == 3

MaxRawLen == 4

MaxProntoWords == 7

\* decimal digits of n >= 0
RECURSIVE Dec(_)
Dec(n) ==
  IF n < 10 THEN << DecDigits[n + 1] >>
  ELSE Dec(n \div 10) \o << DecDigits[(n % 10) + 1] >>

HexChar(d) == IF d < 10 THEN DecDigits[d + 1] ELSE HexUpper[d - 9]

\* the four hexadecimal digits of a 16-bit word
Hex4(n) ==
  << HexChar(n \div 4096), HexChar((n \div 256) % 16),
     HexChar((n \div 16) % 16), HexChar(n % 16) >>

\* the strings of toks, sep between each two
RECURSIVE Join(_, _)
Join(toks, sep) ==
  IF toks = <<>> THEN <<>>
  ELSE IF Len(toks) = 1 THEN toks[1]
  ELSE toks[1] \o sep \o Join(Tail(toks), sep)

SeqsUpTo(S, n) == UNION { [1..k -> S] : k \in 0..n }

\* racepoint: every short sequence over a few words, and carriers followed
\* by pulses around the 16-bit limit of a call (4000 at up to 60000 Hz) and
\* the 32-bit limit of w * 1000000 (4294), behind words that are no
\* carrier; rendered with or without blanks and a stray digit (variants:
\* [a stray digit at the end, the text between two words])
RacepointInputs ==
  LET wordValues == {0, 242, 4000, 20000, 60001}
      freqs == {20000, 30518, 38000, 60000}
      pulses == {1, 242, 4000, 4294, 4295, 19999, 60001, 65535}
      wordSeqs ==
        SeqsUpTo(wordValues, MaxRpWords) \cup
        { pre \o <<f, w1, w2>> :
            pre \in {<<>>, <<19999>>, <<60001, 0>>}, f \in freqs,
            w1 \in pulses \cup {0}, w2 \in pulses \cup {0} }
      variants ==
        { [extra |-> <<>>, sep |-> <<>>], [extra |-> <<"0">>, sep |-> <<>>],
          [extra |-> <<>>, sep |-> <<" ">>] }
  IN  { [kind |-> "racepoint", words |-> w, marker |-> <<>>, repeats |-> 0,
         extra |-> v.extra, sep |-> v.sep, lead |-> <<>>,
         code |-> Join([k \in 1..Len(w) |-> Hex4(w[k])], v.sep) \o v.extra] :
          w \in wordSeqs, v \in variants }

\* GC: token values around the 16-bit limit, the accepted separators, the
\* optional prefixes
GcInputs ==
  LET tokenValues == {0, 42, 38000, 65535, 65536, 70000}
      seps == { <<",">>, <<";">>, <<" ", "\t">>, <<",", " ">> }
      prefixes == { <<>>, GCPrefix1, GCPrefix1 \o GCPrefix2, GCPrefix2 }
  IN  { [kind |-> "gc", words |-> w, marker |-> <<>>, repeats |-> 0,
         extra |-> <<>>, sep |-> sp, lead |-> pre,
         code |-> pre \o Join([k \in 1..Len(w) |-> Dec(w[k])], sp)] :
          w \in SeqsUpTo(tokenValues, MaxGcTokens),
          sp \in seps, pre \in prefixes }

\* free-form text over separators and digits, decoded as GC
RawInputs ==
  { [kind |-> "raw", words |-> <<>>, marker |-> <<>>, repeats |-> 0,
     extra |-> <<>>, sep |-> <<>>, lead |-> <<>>, code |-> c] :
      c \in SeqsUpTo({",", ";", " ", "\t", "1", "7"}, MaxRawLen) }

\* Pronto: the first words of a fixed sequence, behind an optional first
\* token that is or resembles a repeat marker
ProntoInputs ==
  LET wordValues == <<0, 109, 1, 0, 16, 32, 48, 64>>
      markers ==
        { <<>>, <<"R", "5">>, <<"r", "1", "2">>, <<"R">>, <<"R", "x">>,
          <<"R", "5", "x">>, <<"5", "R">> }
  IN  { [kind |-> "pronto", words |-> SubSeq(wordValues, 1, n),
         marker |-> m, repeats |-> r, extra |-> x, sep |-> sp, lead |-> ld,
         code |-> ld \o Join((IF m = <<>> THEN <<>> ELSE << m >>)
                               \o [k \in 1..n |-> Hex4(wordValues[k])], sp)
                     \o x] :
          n \in 4..MaxProntoWords, m \in markers, r \in {0, 3},
          x \in {<<>>, <<",", " ">>}, sp \in {<<" ">>, <<",">>, <<";", "\t">>},
          ld \in {<<>>, <<" ", ",">>} }

NoOut == [ok |-> FALSE, calls |-> <<>>]

\* a code string is handed to a decoder
InitCodec ==
  /\ config = ConfigA
  /\ emitterRuntimeCount = config.emitterCount
  /\ hvacStates = [i \in 0..(MaxHvacs - 1) |-> HvacRuntimeState]
  /\ telnetClients = [i \in Slots |-> "none"]
  /\ last = [op |-> "setup", src |-> -1, doc |-> NoDoc, resp |-> NoResp,
             ret |-> TRUE, again |-> FALSE]
  /\ trace = <<>>
  /\ \E in \in RacepointInputs \cup GcInputs \cup RawInputs \cup ProntoInputs :
       fn = [op |-> "chosen", in |-> in, out |-> NoOut]

DecodeRacepoint ==
  /\ fn.op = "chosen" /\ fn.in.kind = "racepoint"
  /\ fn' = [fn EXCEPT !.op = "done",
                      !.out = parseStringAndSendRacepoint(fn.in.code)]
  /\ UNCHANGED <<config, emitterRuntimeCount, hvacStates, telnetClients,
                 last, trace>>

DecodeGC ==
  /\ fn.op = "chosen" /\ fn.in.kind \in {"gc", "raw"}
  /\ fn' = [fn EXCEPT !.op = "done", !.out = parseStringAndSendGC(fn.in.code)]
  /\ UNCHANGED <<config, emitterRuntimeCount, hvacStates, telnetClients,
                 last, trace>>

DecodePronto ==
  /\ fn.op = "chosen" /\ fn.in.kind = "pronto"
  /\ fn' = [fn EXCEPT !.op = "done",
                      !.out = parseStringAndSendPronto(fn.in.code,
                                                       fn.in.repeats)]
  /\ UNCHANGED <<config, emitterRuntimeCount, hvacStates, telnetClients,
                 last, trace>>

NextCodec == DecodeRacepoint \/ DecodeGC \/ DecodePronto

SpecCodec == InitCodec /\ [][NextCodec]_vars

\* ------------------------------------------------------------------------
\* The main loop: web.handleClient() and handleTelnet() on byte streams.
\* fn.net[i] are the bytes slot i's socket holds unread (fn.cnt[i]: in how
\* many segments they came), fn.buf[i] is telnetBuffers[i], fn.done are the
\* lines the last pass handed to handleTelnetLine, with their replies,
\* fn.left is what telnetBuffers held for the slot the last pass gave to an
\* incoming connection.
\* ------------------------------------------------------------------------
MaxPending == 1

\* {"id":   "2"}   "2","power":"off"}
LineTexts ==
  [head |-> <<"{", "\"", "i", "d", "\"", ":">>,
   on |-> <<"\"", "2", "\"", "}">>,
   off |-> <<"\"", "2", "\"", ",", "\"", "p", "o", "w", "e", "r", "\"", ":",
             "\"", "o", "f", "f", "\"", "}">>]

\* what a peer sends in one piece: a whole line, two whole lines, the two
\* halves of a line, a line end on its own
Segments ==
  { LineTexts.head \o LineTexts.off \o <<"\n">>,
    LineTexts.head \o LineTexts.on \o <<"\r", "\n">>
      \o LineTexts.head \o LineTexts.off \o <<"\n">>,
    LineTexts.head,
    LineTexts.on \o <<"\n">>,
    <<"\r", "\n">> }

\* deserializeJson(doc, line) on the lines these segments make: the
\* parser reads one value and leaves what follows it unread
deserializeJson(line) ==
  IF StartsWith(line, LineTexts.head \o LineTexts.on)
    THEN [err |-> FALSE, doc |-> Doc(JNone, JStr("2"))]
  ELSE IF StartsWith(line, LineTexts.head \o LineTexts.off)
    THEN [err |-> FALSE,
          doc |-> [Doc(JNone, JStr("2")) EXCEPT !.power = JStr("off")]]
  ELSE IF StartsWith(line, LineTexts.on) \/ StartsWith(line, LineTexts.off)
    THEN [err |-> FALSE, doc |-> NoDoc]
  ELSE [err |-> TRUE, doc |-> NoDoc]

\* the reply written to the first slot, whoever sent the command
RepliedToFirst(out, sourceTelnetSlot) ==
  Outcome(out.ret, out.resp, out.states,
          out.events \o << Ev("reply", 0, -1, NoMsg) >>)

\* sendTelnetJson(sourceTelnetSlot, resp) after the command's own steps
Replied(out, sourceTelnetSlot) ==
  Outcome(out.ret, out.resp, out.states,
          out.events \o << Ev("reply", sourceTelnetSlot, -1, NoMsg) >>)

\* handleTelnetLine answering a line that does not parse with a state
\* push to everybody
handleTelnetLineLoud(line, sourceTelnetSlot, cfg, emCount, states, clients) ==
  IF deserializeJson(line).err
    THEN Outcome(FALSE, RespError("invalid_json"), LazyInit(states, 0),
           BroadcastFrom(writeStateJson("", states[0]), -1, clients, 0)
             \o << Ev("reply", sourceTelnetSlot, -1, NoMsg) >>)
  ELSE Replied(processCommand(deserializeJson(line).doc, sourceTelnetSlot,
                              TRUE, cfg, emCount, states, clients),
               sourceTelnetSlot)

handleTelnetLine(line, sourceTelnetSlot, cfg, emCount, states, clients) ==
  IF deserializeJson(line).err
    THEN Outcome(FALSE, RespError("invalid_json"), states,
                 << Ev("reply", sourceTelnetSlot, -1, NoMsg) >>)
  ELSE Replied(processCommand(deserializeJson(line).doc, sourceTelnetSlot,
                              TRUE, cfg, emCount, states, clients),
               sourceTelnetSlot)

\* position of the first line feed in bytes, 0 when there is none
FirstLf(bytes) ==
  LET ends == { k \in 1..Len(bytes) : bytes[k] = "\n" }
  IN  IF ends = {} THEN 0 ELSE CHOOSE k \in ends : \A m \in ends : k <= m

\* the bytes before position n, carriage returns dropped
Taken(bytes, n) ==
  SelectSeq(SubSeq(bytes, 1, n - 1), LAMBDA ch : ch # "\r")

\* a line handled with its steps put before those of the lines handled
\* earlier in the pass, and run from the state the pass started with
AfterLineMixed(acc, i, line, out) ==
  [buf |-> [acc.buf EXCEPT ![i] = <<>>],
   states |-> IF acc.done = <<>> THEN out.states ELSE acc.states,
   events |-> out.events \o acc.events,
   done |-> Append(acc.done, [slot |-> i, line |-> line, resp |-> out.resp])]

\* a line of slot i was handled: its buffer is empty again, the states and
\* the steps are those the handler left, the line and its reply are noted
AfterLine(acc, i, line, out) ==
  [buf |-> [acc.buf EXCEPT ![i] = <<>>],
   states |-> out.states,
   events |-> acc.events \o out.events,
   done |-> Append(acc.done, [slot |-> i, line |-> line, resp |-> out.resp])]

\* the read loop with one buffer for all connections
RECURSIVE ReadShared(_, _, _, _, _, _, _)
ReadShared(i, bytes, net, cfg, emCount, clients, acc) ==
  IF i >= kMaxTelnetClients THEN acc
  ELSE IF ~IsLive(clients[i]) \/ bytes = <<>>
    THEN ReadShared(i + 1, IF i + 1 \in Slots THEN net[i + 1] ELSE <<>>,
                    net, cfg, emCount, clients, acc)
  ELSE IF FirstLf(bytes) = 0
    THEN ReadShared(i, <<>>, net, cfg, emCount, clients,
           [acc EXCEPT !.buf = [j \in Slots |->
                                  acc.buf[0] \o Taken(bytes, Len(bytes) + 1)]])
  ELSE IF acc.buf[0] \o Taken(bytes, FirstLf(bytes)) = <<>>
    THEN ReadShared(i, SubSeq(bytes, FirstLf(bytes) + 1, Len(bytes)),
                    net, cfg, emCount, clients, acc)
  ELSE ReadShared(i, SubSeq(bytes, FirstLf(bytes) + 1, Len(bytes)),
         net, cfg, emCount, clients,
         AfterLine([acc EXCEPT !.buf = [j \in Slots |-> <<>>]], i,
                   acc.buf[0] \o Taken(bytes, FirstLf(bytes)),
                   handleTelnetLine(acc.buf[0] \o Taken(bytes, FirstLf(bytes)),
                                    i, cfg, emCount, acc.states, clients)))

\* the second loop of handleTelnet from slot i on, bytes being what is
\* left to read of slot i; one step takes the bytes up to the next line
\* feed: without the carriage returns they go to telnetBuffers[i], and the
\* line feed hands the buffer, when it is not empty, to handleTelnetLine.
\* acc carries telnetBuffers, hvacStates, the observable steps and the
\* lines handled so far
RECURSIVE ReadFrom(_, _, _, _, _, _, _)
ReadFrom(i, bytes, net, cfg, emCount, clients, acc) ==
  IF i >= kMaxTelnetClients THEN acc
  ELSE IF ~IsLive(clients[i]) \/ bytes = <<>>
    THEN ReadFrom(i + 1, IF i + 1 \in Slots THEN net[i + 1] ELSE <<>>,
                  net, cfg, emCount, clients, acc)
  ELSE IF FirstLf(bytes) = 0
    THEN ReadFrom(i, <<>>, net, cfg, emCount, clients,
           [acc EXCEPT !.buf[i] = @ \o Taken(bytes, Len(bytes) + 1)])
  ELSE IF acc.buf[i] \o Taken(bytes, FirstLf(bytes)) = <<>>
    THEN ReadFrom(i, SubSeq(bytes, FirstLf(bytes) + 1, Len(bytes)),
                  net, cfg, emCount, clients, acc)
  ELSE ReadFrom(i, SubSeq(bytes, FirstLf(bytes) + 1, Len(bytes)),
         net, cfg, emCount, clients,
         AfterLine(acc, i, acc.buf[i] \o Taken(bytes, FirstLf(bytes)),
                   handleTelnetLine(acc.buf[i] \o Taken(bytes, FirstLf(bytes)),
                                    i, cfg, emCount, acc.states, clients)))

\* setup() with the sockets and line buffers empty
InitLoop ==
  /\ config = ConfigA
  /\ emitterRuntimeCount = config.emitterCount
  /\ hvacStates = [i \in 0..(MaxHvacs - 1) |-> HvacRuntimeState]
  /\ telnetClients \in ClientPatterns
  /\ last = [op |-> "setup", src |-> -1, doc |-> NoDoc, resp |-> NoResp,
             ret |-> TRUE, again |-> FALSE]
  /\ trace = <<>>
  /\ fn = [op |-> "loop", net |-> [i \in Slots |-> <<>>],
           cnt |-> [i \in Slots |-> 0], buf |-> [i \in Slots |-> <<>>],
           done |-> <<>>, left |-> <<>>]

\* the peer of slot i sends a segment; a line is split at most once
NetArrive(i, seg) ==
  /\ IsLive(telnetClients[i])
  /\ fn.cnt[i] < MaxPending
  /\ LET unread == fn.buf[i] \o fn.net[i]
     IN  IF seg[Len(seg)] = "\n" \/ unread = <<>> THEN TRUE
         ELSE unread[Len(unread)] = "\n"
  /\ fn' = [fn EXCEPT !.net[i] = @ \o seg, !.cnt[i] = @ + 1, !.done = <<>>,
                       !.left = <<>>]
  /\ trace' = <<>>
  /\ last' = Last("arrive", i, NoDoc, NoResp, TRUE)
  /\ UNCHANGED <<config, emitterRuntimeCount, hvacStates, telnetClients>>

\* a pass of loop() that gives a slot to an incoming connection with the
\* line buffer the slot had
loopKeepBuffer(reqs, incoming) ==
  \E web \in {IF reqs = <<>> THEN Outcome(TRUE, NoResp, hvacStates, <<>>)
              ELSE Replied(processCommand(HvacTestDoc(reqs[1]), -1, TRUE,
                             config, emitterRuntimeCount, hvacStates,
                             telnetClients), -1)} :
    LET slot == IF incoming THEN FirstFreeFrom(telnetClients, 0) ELSE -1
        clients == IF slot >= 0 THEN [telnetClients EXCEPT ![slot] = "live"]
                   ELSE telnetClients
        net == IF slot >= 0 THEN [fn.net EXCEPT ![slot] = <<>>] ELSE fn.net
        buf == fn.buf
        states == IF slot >= 0 THEN InitializeAll(config, web.states)
                  ELSE web.states
        pushes == IF slot >= 0 THEN SnapshotPushes(config, web.states, slot)
                  ELSE <<>>
    IN  \E r \in {ReadFrom(0, net[0], net, config, emitterRuntimeCount,
                           clients,
                           [buf |-> buf, states |-> states,
                            events |-> web.events \o pushes,
                            done |-> <<>>])} :
          /\ hvacStates' = r.states
          /\ telnetClients' = clients
          /\ trace' = r.events
          /\ fn' = [fn EXCEPT !.net = [i \in Slots |->
                                IF IsLive(clients[i]) THEN <<>> ELSE net[i]],
                              !.cnt = [i \in Slots |->
                                IF IsLive(clients[i]) THEN 0 ELSE @[i]],
                              !.buf = r.buf, !.done = r.done,
                              !.left = IF slot >= 0 THEN fn.buf[slot]
                                       ELSE <<>>]
          /\ last' = Last("loop", slot,
                          IF reqs = <<>> THEN NoDoc ELSE HvacTestDoc(reqs[1]),
                          web.resp, web.ret)
          /\ UNCHANGED <<config, emitterRuntimeCount>>

\* one pass of loop(): the web server handles the requests it has (a POST
\* to /hvacs/test each), then handleTelnet takes the incoming connection,
\* if there is one, and reads every live connection
loop(reqs, incoming) ==
  \E web \in {IF reqs = <<>> THEN Outcome(TRUE, NoResp, hvacStates, <<>>)
              ELSE Replied(processCommand(HvacTestDoc(reqs[1]), -1, TRUE,
                             config, emitterRuntimeCount, hvacStates,
                             telnetClients), -1)} :
    LET slot == IF incoming THEN FirstFreeFrom(telnetClients, 0) ELSE -1
        clients == IF slot >= 0 THEN [telnetClients EXCEPT ![slot] = "live"]
                   ELSE telnetClients
        net == IF slot >= 0 THEN [fn.net EXCEPT ![slot] = <<>>] ELSE fn.net
        buf == IF slot >= 0 THEN [fn.buf EXCEPT ![slot] = <<>>] ELSE fn.buf
        states == IF slot >= 0 THEN InitializeAll(config, web.states)
                  ELSE web.states
        pushes == IF slot >= 0 THEN SnapshotPushes(config, web.states, slot)
                  ELSE <<>>
    IN  \E r \in {ReadFrom(0, net[0], net, config, emitterRuntimeCount,
                           clients,
                           [buf |-> buf, states |-> states,
                            events |-> web.events \o pushes,
                            done |-> <<>>])} :
          /\ hvacStates' = r.states
          /\ telnetClients' = clients
          /\ trace' = r.events
          /\ fn' = [fn EXCEPT !.net = [i \in Slots |->
                                IF IsLive(clients[i]) THEN <<>> ELSE net[i]],
                              !.cnt = [i \in Slots |->
                                IF IsLive(clients[i]) THEN 0 ELSE @[i]],
                              !.buf = r.buf, !.done = r.done,
                              !.left = IF slot >= 0 THEN fn.buf[slot]
                                       ELSE <<>>]
          /\ last' = Last("loop", slot,
                          IF reqs = <<>> THEN NoDoc ELSE HvacTestDoc(reqs[1]),
                          web.resp, web.ret)
          /\ UNCHANGED <<config, emitterRuntimeCount>>

NextLoop ==
  \/ \E i \in {0, 2}, seg \in Segments : NetArrive(i, seg)
  \/ \E reqs \in Exercise.reqs, incoming \in BOOLEAN : loop(reqs, incoming)
  \/ TelnetDisconnect(0)

SpecLoop == InitLoop /\ [][NextLoop]_vars

\* ------------------------------------------------------------------------
\* The configuration handlers of the web server.  config.hvacs is the part
\* of the array below hvacCount; fn.spare are the array's records from
\* hvacCount on, which a later add takes over.
\* ------------------------------------------------------------------------
MaxEmitters == 2

\* the requests of the model add devices up to this many
MaxConfigured == 2

\* the lowest id from 1 on that no configured device has; names are
\* String(id) for the ids tried first
nextHvacId(cfg) ==
  LET names == <<"1", "2", "3", "4", "5", "6">>
      used == { cfg.hvacs[k].id : k \in 1..Len(cfg.hvacs) }
      free == { n \in 1..Len(names) : names[n] \notin used }
  IN  IF free = {} THEN ""
      ELSE names[CHOOSE n \in free : \A m \in free : n <= m]

\* initHvacRuntimeStates
initHvacRuntimeStates(states) == [i \in DOMAIN states |-> HvacRuntimeState]

\* resetHvacRuntimeState(idx)
resetHvacRuntimeState(states, idx) ==
  IF idx \in DOMAIN states THEN [states EXCEPT ![idx] = HvacRuntimeState]
  ELSE states

\* loadConfig without a stored file: no emitter, no device, every record of
\* the device array at its defaults; nobody connected yet but slots 0 and 2
InitConfig ==
  /\ config = [emitterCount |-> 0, hvacs |-> <<>>]
  /\ emitterRuntimeCount = 0
  /\ hvacStates = [i \in 0..(MaxHvacs - 1) |-> HvacRuntimeState]
  /\ telnetClients = [i \in Slots |-> IF i \in {0, 2} THEN "live" ELSE "none"]
  /\ last = [op |-> "setup", src |-> -1, doc |-> NoDoc, resp |-> NoResp,
             ret |-> TRUE, again |-> FALSE]
  /\ trace = <<>>
  /\ fn = [op |-> "config",
           spare |-> [k \in 1..MaxHvacs |->
                        HvacConfig("", "", -1, FALSE, "", <<>>, <<>>)]]

\* what a configuration handler leaves besides config and the states:
\* rebuildEmitters, and which request it was and whether it was accepted
Configured(op, idx, ok) ==
  /\ emitterRuntimeCount' = config'.emitterCount
  /\ trace' = <<>>
  /\ last' = Last(op, idx, NoDoc, NoResp, ok)
  /\ UNCHANGED telnetClients

\* POST /emitters/add with these gpios arguments
handleEmittersAdd(gpios) ==
  LET valid == Cardinality({ k \in 1..Len(gpios) : gpios[k] > 0 })
      room == MaxEmitters - config.emitterCount
      added == IF valid < room THEN valid ELSE room
  IN  /\ config' = [config EXCEPT !.emitterCount = @ + added]
      /\ Configured("emitters_add", -1, added # 0)
      /\ UNCHANGED <<hvacStates, fn>>

\* GET /emitters/delete?index=idx
handleEmittersDelete(idx) ==
  /\ IF idx < 0 \/ idx >= config.emitterCount
       THEN /\ UNCHANGED config
            /\ Configured("emitters_delete", idx, FALSE)
     ELSE /\ config' = [config EXCEPT !.emitterCount = @ - 1]
          /\ Configured("emitters_delete", idx, TRUE)
  /\ UNCHANGED <<hvacStates, fn>>

\* POST /hvacs/add, as long as the model adds devices
handleHvacsAdd(protocol, emitter) ==
  /\ Len(config.hvacs) < MaxConfigured
  /\ IF \/ config.emitterCount = 0
        \/ Len(config.hvacs) >= MaxHvacs
        \/ nextHvacId(config) = ""
       THEN /\ UNCHANGED <<config, hvacStates, fn>>
            /\ Configured("hvacs_add", -1, FALSE)
     ELSE /\ config' = [config EXCEPT !.hvacs =
                          Append(@, [Head(fn.spare) EXCEPT
                                       !.id = nextHvacId(config),
                                       !.protocol = protocol,
                                       !.emitterIndex = emitter,
                                       !.model = -1])]
          /\ fn' = [fn EXCEPT !.spare = Tail(@)]
          /\ hvacStates' = initHvacRuntimeStates(hvacStates)
          /\ Configured("hvacs_add", Len(config.hvacs), TRUE)

\* POST /hvacs/update
handleHvacsUpdate(idx, protocol, emitter) ==
  IF \/ idx < 0 \/ idx >= Len(config.hvacs)
     \/ config.emitterCount = 0
     \/ protocol = ""
     \/ protocol # "CUSTOM" /\ protocol \notin SupportedProtocols
     \/ emitter < 0 \/ emitter >= config.emitterCount
    THEN /\ UNCHANGED <<config, hvacStates, fn>>
         /\ Configured("hvacs_update", idx, FALSE)
  ELSE /\ config' = [config EXCEPT !.hvacs[idx + 1] =
                       [@ EXCEPT !.protocol = protocol,
                                 !.emitterIndex = emitter,
                                 !.model = -1,
                                 !.isCustom = (protocol = "CUSTOM")]]
       /\ hvacStates' = resetHvacRuntimeState(hvacStates, idx)
       /\ Configured("hvacs_update", idx, TRUE)
       /\ UNCHANGED fn

\* GET /hvacs/delete?index=idx
handleHvacsDelete(idx) ==
  IF idx < 0 \/ idx >= Len(config.hvacs)
    THEN /\ UNCHANGED <<config, hvacStates, fn>>
         /\ Configured("hvacs_delete", idx, FALSE)
  ELSE /\ config' = [config EXCEPT !.hvacs =
                       SubSeq(@, 1, idx) \o SubSeq(@, idx + 2, Len(@))]
       /\ fn' = [fn EXCEPT !.spare = << config.hvacs[Len(config.hvacs)] >> \o @]
       /\ hvacStates' = initHvacRuntimeStates(hvacStates)
       /\ Configured("hvacs_delete", idx, TRUE)

\* the configuration requests, and commands in between
NextConfig ==
  \/ \E gpios \in {<<4>>, <<0>>} : handleEmittersAdd(gpios)
  \/ \E idx \in 0..MaxEmitters : handleEmittersDelete(idx)
  \/ \E emitter \in {0, 1} : handleHvacsAdd("DAIKIN", emitter)
  \/ \E idx \in {0, 1}, protocol \in {"DAIKIN", ""}, emitter \in {0, 1} :
       handleHvacsUpdate(idx, protocol, emitter)
  \/ \E idx \in {0, 1} : handleHvacsDelete(idx)
  \/ \E doc \in Exercise.config : TelnetLine(0, doc, TRUE)

SpecConfig == InitConfig /\ [][NextConfig]_vars

\* ------------------------------------------------------------------------
\* The observers' view.  fn.seen[i][k] is the state object of device
\* config.hvacs[k] written last to the connection in slot i: by the
\* snapshot at accept, by a broadcast, or as the reply to the connection's
\* own send or get.  NoMsg: nothing written yet.  fn.was is the record the
\* device a command names had when the handler was entered.
\* ------------------------------------------------------------------------
MaxObservers == 2

\* fn.seen after a handler wrote events and, to slot src, the reply resp
SeenAfter(seen, events, resp, src, cfg) ==
  [i \in Slots |->
     [k \in 1..Len(cfg.hvacs) |->
        LET own == IF i # src THEN {}
                   ELSE { n \in 1..Len(resp.states) :
                            resp.states[n].id = cfg.hvacs[k].id }
            got == { n \in 1..Len(events) :
                       /\ events[n].ev = "push"
                       /\ events[n].slot = i
                       /\ events[n].msg.id = cfg.hvacs[k].id }
        IN  IF own # {}
              THEN resp.states[CHOOSE n \in own : \A m \in own : m <= n]
            ELSE IF got # {}
              THEN events[CHOOSE n \in got : \A m \in got : m <= n].msg
            ELSE seen[i][k]]]

\* setup() with nobody connected
InitSeen ==
  /\ config = ConfigA
  /\ emitterRuntimeCount = config.emitterCount
  /\ hvacStates = [i \in 0..(MaxHvacs - 1) |-> HvacRuntimeState]
  /\ telnetClients = [i \in Slots |-> "none"]
  /\ last = [op |-> "setup", src |-> -1, doc |-> NoDoc, resp |-> NoResp,
             ret |-> TRUE, again |-> FALSE]
  /\ trace = <<>>
  /\ fn = [op |-> "seen", was |-> HvacRuntimeState,
           seen |-> [i \in Slots |-> [k \in 1..Len(ConfigA.hvacs) |-> NoMsg]]]

\* handleTelnetLine for a line of slot i that parses as doc
LineSeen(i, doc, acOk) ==
  /\ IsLive(telnetClients[i])
  /\ \E out \in {processCommand(doc, i, acOk, config, emitterRuntimeCount,
                               hvacStates, telnetClients)} :
         /\ hvacStates' = out.states
         /\ trace' = out.events \o << Ev("reply", i, -1, NoMsg) >>
         /\ last' = Last("telnet", i, doc, out.resp, out.ret)
         /\ fn' = [fn EXCEPT !.seen = SeenAfter(@, out.events, out.resp, i,
                                                config),
                              !.was = hvacStates[
                                findHvacIndexById(config, doc.id.s)]]
  /\ UNCHANGED <<config, emitterRuntimeCount, telnetClients>>

\* handleHvacTest, once authorized
WebSeen(form, acOk) ==
  /\ \E out \in {processCommand(HvacTestDoc(form), -1, acOk, config,
                               emitterRuntimeCount, hvacStates,
                               telnetClients)} :
         /\ hvacStates' = out.states
         /\ trace' = out.events \o << Ev("reply", -1, -1, NoMsg) >>
         /\ last' = Last("web", -1, HvacTestDoc(form), out.resp, out.ret)
         /\ fn' = [fn EXCEPT !.seen = SeenAfter(@, out.events, out.resp, -1,
                                                config),
                              !.was = hvacStates[
                                findHvacIndexById(config, form.id)]]
  /\ UNCHANGED <<config, emitterRuntimeCount, telnetClients>>

\* handleTelnet with an incoming connection pending and a slot for it
AcceptSeen ==
  /\ Cardinality({ i \in Slots : IsLive(telnetClients[i]) }) < MaxObservers
  /\ \E i \in {FirstFreeFrom(telnetClients, 0)} :
       /\ telnetClients' = [telnetClients EXCEPT ![i] = "live"]
       /\ hvacStates' = InitializeAll(config, hvacStates)
       /\ trace' = SnapshotPushes(config, hvacStates, i)
       /\ last' = Last("accept", i, NoDoc, NoResp, TRUE)
       /\ fn' = [fn EXCEPT !.seen =
                   SeenAfter(@, SnapshotPushes(config, hvacStates, i),
                             NoResp, -1, config),
                 !.was = HvacRuntimeState]
  /\ UNCHANGED <<config, emitterRuntimeCount>>

\* the peer of slot i closes its connection: what it had seen is gone
DisconnectSeen(i) ==
  /\ IsLive(telnetClients[i])
  /\ telnetClients' = [telnetClients EXCEPT ![i] = "dead"]
  /\ trace' = <<>>
  /\ last' = Last("disconnect", i, NoDoc, NoResp, TRUE)
  /\ fn' = [fn EXCEPT !.seen[i] = [k \in 1..Len(config.hvacs) |-> NoMsg],
                       !.was = HvacRuntimeState]
  /\ UNCHANGED <<config, emitterRuntimeCount, hvacStates>>

NextSeen ==
  \/ \E i \in Slots, acOk \in BOOLEAN, doc \in Exercise.seen :
       LineSeen(i, doc, acOk)
  \/ \E form \in Exercise.forms : WebSeen(form, TRUE)
  \/ AcceptSeen
  \/ \E i \in Slots : DisconnectSeen(i)

SpecSeen == InitSeen /\ [][NextSeen]_vars

\* ------------------------------------------------------------------------
\* Vocabulary of the properties
\* ------------------------------------------------------------------------
\* the handler that ran last was processCommand (from telnet or the web)
IsCommand(l) == l.op \in {"telnet", "web"}

CmdOf(l) == OrStr(l.doc.cmd, "send")

IsSend(l) == IsCommand(l) /\ CmdOf(l) = "send"

\* index of the device a command names, -1 when none
TargetOf(l) == findHvacIndexById(config, OrStr(l.doc.id, ""))

\* a send that committed
SendOk(l) == IsSend(l) /\ l.ret

EventsOf(tr, kinds) == { k \in 1..Len(tr) : tr[k].ev \in kinds }

Broadcasts(tr) == Cardinality(EventsOf(tr, {"broadcast"}))

PushesTo(tr, slot) ==
  Cardinality({ k \in 1..Len(tr) : tr[k].ev = "push" /\ tr[k].slot = slot })

EmitterSends(tr) == Cardinality(EventsOf(tr, {"send_raw", "send_ac"}))

\* the snapshot a send compares its commit against: the stored record,
\* after the lazy default initialization
Snapshot(st) == ensureHvacStateInitialized(st)

ErrorTaxonomy ==
  {"invalid_json", "missing_id", "unknown_id", "invalid_emitter",
   "unsupported_protocol", "missing_custom_off", "missing_temp_code",
   "missing_code", "send_failed", "unknown_cmd"}

ModeValues == {"auto", "cool", "heat", "dry", "fan", "off"}

FanValues == {"auto", "min", "low", "medium", "high", "max"}

\* ------------------------------------------------------------------------
\* C1
\* ------------------------------------------------------------------------
\* C1: a send to a custom device that resolves to power off while the
\* device has no off code fails with missing_custom_off, invokes no emitter
\* send and leaves every DeviceState record, the target's initialized flag
\* included, exactly as it was, whatever the prior state of the store.
C1_MissingOffLeavesStore ==
  [][ (IsSend(last') /\ last'.resp.error = "missing_custom_off")
        => /\ hvacStates' = hvacStates
           /\ EmitterSends(trace') = 0 ]_vars

\* ------------------------------------------------------------------------
\* C2
\* ------------------------------------------------------------------------
\* C2: when the send primitive reports failure, send replies send_failed,
\* the StateStore is identical to what it was before the command, and no
\* broadcast is pushed to any observer.
C2_SendFailedLeavesStore ==
  [][ (IsSend(last') /\ EmitterSends(trace') > 0 /\ ~last'.ret)
        => /\ last'.resp = RespError("send_failed")
           /\ hvacStates' = hvacStates
           /\ Broadcasts(trace') = 0
           /\ \A i \in Slots : PushesTo(trace', i) = 0 ]_vars

\* ------------------------------------------------------------------------
\* C3
\* ------------------------------------------------------------------------
\* this step executes, successfully and with the same resolved state, the
\* send the step before it executed successfully
SecondOfTwo ==
  /\ SendOk(last) /\ SendOk(last')
  /\ last'.doc = last.doc
  /\ hvacStates' = hvacStates

PushedToOthers(tr, src, idx, states, clients) ==
  /\ \A i \in Slots :
       PushesTo(tr, i) = IF IsLive(clients[i]) /\ i # src THEN 1 ELSE 0
  /\ \A k \in 1..Len(tr) :
       tr[k].ev = "push" =>
         tr[k].msg = writeStateJson(config.hvacs[idx + 1].id, states[idx])

Positions(tr, kinds) == EventsOf(tr, kinds)

\* C5: for every send that triggers a broadcast the events occur in the
\* order emitter send, state commit, pushes to the other observers, reply
\* to the originating connection; no push precedes the commit and the
\* reply follows every push.
C5_Ordering ==
  (IsSend(last) /\ Broadcasts(trace) > 0) =>
    /\ Cardinality(Positions(trace, {"send_raw", "send_ac"})) = 1
    /\ Cardinality(Positions(trace, {"commit"})) = 1
    /\ Cardinality(Positions(trace, {"reply"})) = 1
    /\ \A s \in Positions(trace, {"send_raw", "send_ac"}) :
         \A c \in Positions(trace, {"commit"}) : s < c
    /\ \A c \in Positions(trace, {"commit"}) :
         \A b \in Positions(trace, {"broadcast", "push"}) : c < b
    /\ \A b \in Positions(trace, {"broadcast", "push"}) :
         \A r \in Positions(trace, {"reply"}) : b < r
    /\ trace[Len(trace)].ev = "reply"
    /\ trace[Len(trace)].slot = last.src

\* a telnet send has been pushed to another observer and answered
C5_Witness ==
  /\ IsSend(last) /\ last.op = "telnet"
  /\ Broadcasts(trace) = 1
  /\ \E i \in Slots : PushesTo(trace, i) = 1

\* ------------------------------------------------------------------------
\* C6
\* ------------------------------------------------------------------------
AllLive(clients) == \A i \in Slots : IsLive(clients[i])

\* C6: the pool holds at most 4 live connections. A connection attempt
\* arriving while all 4 slots are live is refused: no slot changes and no
\* snapshot is sent. Otherwise the attempt gets the lowest-indexed slot
\* without a live connection and is at once sent one state message per
\* configured device, each carrying that device's state, to the new
\* observer only.
C6_PoolAdmission ==
  [][ /\ Cardinality({ i \in Slots : IsLive(telnetClients'[i]) })
           <= kMaxTelnetClients
      /\ last'.op \in {"accept", "refuse"} =>
           (last'.op = "refuse" <=> AllLive(telnetClients))
      /\ last'.op = "refuse" =>
           /\ telnetClients' = telnetClients
           /\ hvacStates' = hvacStates
           /\ trace' = <<>>
      /\ last'.op = "accept" =>
           /\ ~IsLive(telnetClients[last'.src])
           /\ \A j \in Slots : j < last'.src => IsLive(telnetClients[j])
           /\ telnetClients' = [telnetClients EXCEPT ![last'.src] = "live"]
           /\ Len(trace') = Len(config.hvacs)
           /\ \A k \in 1..Len(trace') :
                /\ trace'[k].ev = "push"
                /\ trace'[k].slot = last'.src
                /\ trace'[k].msg =
                     writeStateJson(config.hvacs[k].id, hvacStates'[k - 1])
                /\ hvacStates'[k - 1] = Snapshot(hvacStates[k - 1]) ]_vars

\* after all four slots were taken and one observer left, a newcomer has
\* been given the freed slot and its snapshot
C6_Witness ==
  /\ last.op = "accept" /\ last.src < 3
  /\ telnetClients[3] = "live"
  /\ Len(trace) = Len(config.hvacs)

\* ------------------------------------------------------------------------
\* C7
\* ------------------------------------------------------------------------
\* C7: a raw command, whether it succeeds or fails, leaves every
\* DeviceState record unchanged, triggers no commit and no broadcast, and
\* consults no device configuration: it replies and acts as it does with
\* no device configured and a pristine state table.
C7_RawFrame ==
  [][ (IsCommand(last') /\ CmdOf(last') = "raw") =>
        /\ hvacStates' = hvacStates
        /\ EventsOf(trace', {"commit", "broadcast", "push"}) = {}
        /\ \E o \in { processCommand(last'.doc, last'.src, FALSE,
                        [config EXCEPT !.hvacs = <<>>], emitterRuntimeCount,
                        [i \in DOMAIN hvacStates |-> HvacRuntimeState],
                        telnetClients) } :
             /\ o.resp = last'.resp
             /\ o.ret = last'.ret
             /\ o.events = SubSeq(trace', 1, Len(trace') - 1) ]_vars

\* a raw command has been sent while one device had a state and another
\* had never been referenced
C7_Witness ==
  /\ IsCommand(last) /\ CmdOf(last) = "raw" /\ last.ret
  /\ EmitterSends(trace) = 1
  /\ hvacStates[0].initialized /\ ~hvacStates[1].initialized

\* ------------------------------------------------------------------------
\* C8
\* ------------------------------------------------------------------------
\* C8: every reply of the command processor, for every command and on both
\* success and failure, carries the success flag ok; on failure it also
\* carries an error code of the taxonomy.
C8_ReplyCarriesOk ==
  (IsCommand(last) \/ last.op = "badline") =>
    /\ "ok" \in last.resp.keys
    /\ last.resp.ok = last.ret
    /\ ~last.ret => ("error" \in last.resp.keys
                     /\ last.resp.error \in ErrorTaxonomy)

\* ------------------------------------------------------------------------
\* C9
\* ------------------------------------------------------------------------
\* a string member that is none of the known names, in any letter case
Unrecognized(v, known) == v.k = "str" /\ ToLowerCase(v.s) \notin known

AllEnumerated ==
  \A i \in DOMAIN hvacStates :
    hvacStates[i].mode \in ModeValues /\ hvacStates[i].fan \in FanValues

\* C9 (as stated): every stored mode is one of auto, cool, heat, dry, fan,
\* off and every stored fan one of auto, min, low, medium, high, max; an
\* unrecognized input string is stored as auto.
C9_UnrecognizedIsAuto ==
  /\ AllEnumerated
  /\ SendOk(last) =>
       /\ Unrecognized(last.doc.mode, ModeValues)
            => hvacStates[TargetOf(last)].mode = "auto"
       /\ Unrecognized(last.doc.fan, FanValues)
            => hvacStates[TargetOf(last)].fan = "auto"

\* C9 (amended): every stored mode and fan is one of the enumerated values;
\* an unrecognized fan string is stored as auto; an unrecognized mode
\* string is stored as auto when the command resolves to power on, and as
\* off, like every mode, when it resolves to power off.
C9_Enumerations ==
  /\ AllEnumerated
  /\ SendOk(last) =>
       /\ Unrecognized(last.doc.mode, ModeValues)
            => hvacStates[TargetOf(last)].mode =
                 IF hvacStates[TargetOf(last)].power THEN "auto" ELSE "off"
       /\ Unrecognized(last.doc.fan, FanValues)
            => hvacStates[TargetOf(last)].fan = "auto"

\* a custom device has stored auto for a mode and a fan it was sent and
\* does not know
C9_Witness ==
  /\ SendOk(last)
  /\ config.hvacs[TargetOf(last) + 1].isCustom
  /\ Unrecognized(last.doc.mode, ModeValues)
  /\ Unrecognized(last.doc.fan, FanValues)
  /\ hvacStates[TargetOf(last)].power
  /\ hvacStates[TargetOf(last)].mode = "auto"

\* ------------------------------------------------------------------------
\* C10
\* ------------------------------------------------------------------------
Abs(n) == IF n < 0 THEN -n ELSE n

\* |a - b| > 0.05 for floats a, b in units of 2^-23: 0.05 is 419430.4 units
MoreThanEps(a, b) == Abs(a - b) > 419430

\* C10: two initialized states that agree on power, mode, fan and light
\* are changed exactly when setpoint or currentTemp differ by more than
\* 0.05 in absolute value; 24.0 to 24.04 is no change, 24.0 to 24.06 is a
\* change.
C10_DiffRule ==
  (/\ fn.op = "diff"
   /\ fn.a.initialized /\ fn.b.initialized
   /\ fn.a.power = fn.b.power /\ fn.a.mode = fn.b.mode
   /\ fn.a.fan = fn.b.fan /\ fn.a.light = fn.b.light)
    => (fn.changed <=> (\/ MoreThanEps(fn.a.setpoint, fn.b.setpoint)
                        \/ MoreThanEps(fn.a.currentTemp, fn.b.currentTemp)))

\* ------------------------------------------------------------------------
\* C11
\* ------------------------------------------------------------------------
\* C11: the first successful send to a device whose state was never
\* initialized always triggers a broadcast, whether or not the committed
\* field values equal the defaults.
C11_FirstSendBroadcasts ==
  [][ (SendOk(last') /\ ~hvacStates[TargetOf(last')].initialized)
        => Broadcasts(trace') = 1 ]_vars

\* ------------------------------------------------------------------------
\* C19
\* ------------------------------------------------------------------------
KnownCmds == {"list", "send", "get", "get_all", "raw", "help"}

\* the command was refused as unknown and nothing else happened
RefusedUnknown ==
  /\ last'.resp = RespError("unknown_cmd")
  /\ ~last'.ret
  /\ EmitterSends(trace') = 0
  /\ hvacStates' = hvacStates
  /\ EventsOf(trace', {"commit", "broadcast", "push"}) = {}

\* C19 (as stated): a command whose cmd is none of list, send, get,
\* get_all, raw, help, a command without a cmd member included, is answered
\* unknown_cmd, sends nothing, changes no DeviceState and broadcasts
\* nothing.
C19_UnknownCmd ==
  [][ (IsCommand(last')
        /\ (last'.doc.cmd.k # "str" \/ last'.doc.cmd.s \notin KnownCmds))
        => RefusedUnknown ]_vars

\* C19 (amended): a command whose cmd is a string other than list, send,
\* get, get_all, raw, help is answered unknown_cmd, sends nothing, changes
\* no DeviceState and broadcasts nothing; a command without a cmd member
\* is executed as a send.
C19_UnknownCmdString ==
  [][ /\ (IsCommand(last') /\ last'.doc.cmd.k = "str"
            /\ last'.doc.cmd.s \notin KnownCmds) => RefusedUnknown
      /\ (IsCommand(last') /\ last'.doc.cmd.k = "none") =>
           \E acOk \in BOOLEAN :
             \E o \in { CmdSend(last'.doc, last'.src, acOk, config,
                                emitterRuntimeCount, hvacStates,
                                telnetClients) } :
               /\ o.resp = last'.resp
               /\ o.states = hvacStates'
               /\ o.events = SubSeq(trace', 1, Len(trace') - 1) ]_vars

\* a command with an unknown name has been refused while a device has a
\* state
C19_Witness ==
  /\ IsCommand(last) /\ last.doc.cmd = JStr("bogus")
  /\ last.resp.error = "unknown_cmd"
  /\ \E i \in DOMAIN hvacStates : hvacStates[i].initialized

\* ------------------------------------------------------------------------
\* C20
\* ------------------------------------------------------------------------
\* the first check a send with this document fails among the identifier
\* and emitter checks, "" when it passes them
FirstSendFailure(doc) ==
  LET id == IF doc.id.k = "str" THEN doc.id.s ELSE ""
      known == { k \in 1..Len(config.hvacs) : config.hvacs[k].id = id }
      first == CHOOSE m \in known : \A n \in known : m <= n
  IN  IF id = "" THEN "missing_id"
      ELSE IF known = {} THEN "unknown_id"
      ELSE IF config.hvacs[first].emitterIndex >= emitterRuntimeCount
        THEN "invalid_emitter"
      ELSE ""

Decoded(kind) == fn.op = "done" /\ fn.in.kind = kind

\* the array handed to sendGC or sendPronto, empty when none was
SentData == IF fn.out.calls = <<>> THEN <<>> ELSE fn.out.calls[1].data

InCarrierRange(w) == w >= 20000 /\ w <= 60000

\* position of the first word in the carrier range, 0 when there is none
CarrierAt(words) ==
  IF \E k \in 1..Len(words) : InCarrierRange(words[k])
  THEN CHOOSE k \in 1..Len(words) :
         /\ InCarrierRange(words[k])
         /\ \A j \in 1..(k - 1) : ~InCarrierRange(words[j])
  ELSE 0

\* position of the last nonzero word after position c, c when there is none
LastNonZeroAfter(words, c) ==
  IF \E k \in (c + 1)..Len(words) : words[k] # 0
  THEN CHOOSE k \in (c + 1)..Len(words) :
         /\ words[k] # 0
         /\ \A j \in (k + 1)..Len(words) : words[j] = 0
  ELSE c

\* the words after the carrier, trailing zero words removed
PulsesOf(words) ==
  SubSeq(words, CarrierAt(words) + 1,
         LastNonZeroAfter(words, CarrierAt(words)))

\* (w * 1000000 + f div 2) div f, in steps that stay below 2^31
MathDuration(w, f) ==
  ((w * 1000) \div f) * 1000
    + ((((w * 1000) % f) * 1000 + (f \div 2)) \div f)

RECURSIVE SumArgs(_)
SumArgs(calls) ==
  IF calls = <<>> THEN 0 ELSE Head(calls).arg + SumArgs(Tail(calls))

CallsOf(calls, name) == SelectSeq(calls, LAMBDA c : c.fn = name)

EvenPulses(pulses) == { i \in 1..Len(pulses) : i % 2 = 1 }

RECURSIVE SumOver(_, _, _)
SumOver(pulses, idx, f) ==
  IF idx = {} THEN 0
  ELSE LET i == CHOOSE j \in idx : TRUE
       IN  MathDuration(pulses[i], f) + SumOver(pulses, idx \ {i}, f)

\* ------------------------------------------------------------------------
\* C12
\* ------------------------------------------------------------------------
\* C12: for every pulse word w and carrier f in [20000, 60000] the
\* duration emitted is (w * 1000000 + f div 2) div f: the marks add up to
\* the durations of the pulses of even index and the spaces are, in order,
\* the durations of the pulses of odd index, then the closing 0.
C12_ExactDuration ==
  (Decoded("racepoint") /\ fn.out.ok) =>
    LET words == fn.in.words
        f == words[CarrierAt(words)]
        pulses == PulsesOf(words)
        odd == SelectSeq([i \in 1..Len(pulses) |-> i], LAMBDA i : i % 2 = 0)
    IN  /\ SumArgs(CallsOf(fn.out.calls, "mark"))
             = SumOver(pulses, EvenPulses(pulses), f)
        /\ [k \in 1..(Len(odd) + 1) |-> CallsOf(fn.out.calls, "space")[k].arg]
             = [k \in 1..(Len(odd) + 1) |->
                  IF k <= Len(odd) THEN MathDuration(pulses[odd[k]], f)
                  ELSE 0]

\* ------------------------------------------------------------------------
\* C13
\* ------------------------------------------------------------------------
\* the calls of one mark of duration d: 65535 as often as it fits, then
\* the remainder
ChunksOf(d) ==
  LET n == (d + 65534) \div 65535
  IN  [k \in 1..n |->
         [fn |-> "mark", data |-> <<>>,
          arg |-> IF k < n THEN 65535 ELSE d - 65535 * (n - 1)]]

\* the calls of the pulses from position i on, at carrier f
RECURSIVE ChunkedPulses(_, _, _)
ChunkedPulses(pulses, i, f) ==
  IF i > Len(pulses) THEN <<>>
  ELSE LET d == RacepointDuration(pulses[i], f)
       IN  (IF i % 2 = 1 THEN ChunksOf(d)
            ELSE << [fn |-> "space", data |-> <<>>, arg |-> d] >>)
             \o ChunkedPulses(pulses, i + 1, f)

\* C13: a mark of computed duration d above 65535 is emitted as mark
\* calls of 65535 followed by one remainder call, every mark call is in
\* 1..65535 and the calls of a mark add up to d; a space is one call
\* whatever its duration.
C13_MarkSplitting ==
  (Decoded("racepoint") /\ fn.out.ok) =>
    LET words == fn.in.words
        f == words[CarrierAt(words)]
        calls == fn.out.calls
    IN  /\ \A k \in 1..Len(calls) :
             calls[k].fn = "mark" => calls[k].arg \in 1..65535
        /\ SubSeq(calls, 2, Len(calls) - 1)
             = ChunkedPulses(PulsesOf(words), 1, f)

\* a mark of 200000 us split in 65535, 65535, 65535, 3395 and a space of
\* 200000 us in one call; a mark of 131070 us split in two full calls
C13_Witness ==
  /\ Decoded("racepoint") /\ fn.out.ok
  /\ \E k \in 1..(Len(fn.out.calls) - 4) :
       /\ [j \in 1..5 |-> fn.out.calls[k + j - 1].arg]
            = <<65535, 65535, 65535, 3395, 200000>>
       /\ fn.out.calls[k + 3].fn = "mark"
       /\ fn.out.calls[k + 4].fn = "space"

\* ------------------------------------------------------------------------
\* C14
\* ------------------------------------------------------------------------
\* the number of hexadecimal digits of a rendered racepoint code
HexDigitCount(in) == 4 * Len(in.words) + Len(in.extra)

RacepointMustFail(in) ==
  \/ HexDigitCount(in) < 8
  \/ HexDigitCount(in) % 4 # 0
  \/ CarrierAt(in.words) = 0
  \/ CarrierAt(in.words) = Len(in.words)
  \/ \A k \in (CarrierAt(in.words) + 1)..Len(in.words) : in.words[k] = 0

\* C14: racepoint decoding fails without any mark or space call when
\* fewer than 8 hex digits remain, when their number is not a multiple of
\* 4, when no word is in [20000, 60000], when the first such word is the
\* last word, or when every word after it is zero; otherwise it succeeds.
C14_FailureCases ==
  Decoded("racepoint") =>
    /\ fn.out.ok <=> ~RacepointMustFail(fn.in)
    /\ RacepointMustFail(fn.in) =>
         /\ CallsOf(fn.out.calls, "mark") = <<>>
         /\ CallsOf(fn.out.calls, "space") = <<>>

\* a carrier followed by zero words only is refused
C14_Witness ==
  /\ Decoded("racepoint") /\ ~fn.out.ok
  /\ HexDigitCount(fn.in) >= 8 /\ HexDigitCount(fn.in) % 4 = 0
  /\ CarrierAt(fn.in.words) \in 1..(Len(fn.in.words) - 1)
  /\ fn.out.calls = <<>>

\* ------------------------------------------------------------------------
\* C15
\* ------------------------------------------------------------------------
\* consecutive mark calls taken as one mark of their total duration
RECURSIVE MergeMarks(_)
MergeMarks(calls) ==
  IF Len(calls) < 2 THEN calls
  ELSE IF calls[1].fn = "mark" /\ calls[2].fn = "mark"
  THEN MergeMarks(<< [calls[1] EXCEPT !.arg = calls[1].arg + calls[2].arg] >>
                    \o SubSeq(calls, 3, Len(calls)))
  ELSE << calls[1] >> \o MergeMarks(Tail(calls))

\* one emission per pulse: mark for even index (from 0), space for odd; a
\* mark of duration 0 emits nothing
RECURSIVE EmissionsOf(_, _, _)
EmissionsOf(pulses, i, f) ==
  IF i > Len(pulses) THEN <<>>
  ELSE LET d == RacepointDuration(pulses[i], f)
       IN  (IF i % 2 = 0
            THEN << [fn |-> "space", data |-> <<>>, arg |-> d] >>
            ELSE IF d > 0
            THEN << [fn |-> "mark", data |-> <<>>, arg |-> d] >>
            ELSE <<>>)
             \o EmissionsOf(pulses, i + 1, f)

StrictlyAlternates(calls) ==
  \A k \in 1..Len(calls) :
    calls[k].fn = (IF k % 2 = 1 THEN "mark" ELSE "space")

CarrierAndClosing(in, calls) ==
  /\ calls[1] = [fn |-> "enableIROut", data |-> <<>>,
                 arg |-> in.words[CarrierAt(in.words)]]
  /\ calls[Len(calls)] = [fn |-> "space", data |-> <<>>, arg |-> 0]

\* C15: on a successful decode the carrier is the first word in
\* [20000, 60000], the pulses are the words after it without trailing
\* zero words, the mark and space calls strictly alternate starting with
\* a mark, and the last call is a space of 0.
C15_StrictAlternation ==
  (Decoded("racepoint") /\ fn.out.ok) =>
    /\ CarrierAndClosing(fn.in, fn.out.calls)
    /\ StrictlyAlternates(SubSeq(fn.out.calls, 2, Len(fn.out.calls) - 1))
    /\ MergeMarks(SubSeq(fn.out.calls, 2, Len(fn.out.calls) - 1))
         = EmissionsOf(PulsesOf(fn.in.words), 1,
                       fn.in.words[CarrierAt(fn.in.words)])

\* C15 (amended): the carrier is the first word in [20000, 60000], the
\* pulses are the words after it without trailing zero words, each
\* emitted in order, a mark (even index) as the calls that add up to its
\* duration, none when it is 0, a space (odd index) as one call; the last
\* call is a space of 0; when every mark duration is in 1..65535 the mark
\* and space calls strictly alternate starting with a mark.
C15_PulseOrder ==
  (Decoded("racepoint") /\ fn.out.ok) =>
    LET f == fn.in.words[CarrierAt(fn.in.words)]
        pulses == PulsesOf(fn.in.words)
        body == SubSeq(fn.out.calls, 2, Len(fn.out.calls) - 1)
    IN  /\ CarrierAt(fn.in.words) > 0
        /\ CarrierAndClosing(fn.in, fn.out.calls)
        /\ MergeMarks(body) = EmissionsOf(pulses, 1, f)
        /\ (\A i \in EvenPulses(pulses) :
              RacepointDuration(pulses[i], f) \in 1..65535)
             => StrictlyAlternates(body)

\* words before the carrier discarded and trailing zero words removed,
\* with marks and spaces in strict alternation
C15_Witness ==
  /\ Decoded("racepoint") /\ fn.out.ok
  /\ CarrierAt(fn.in.words) > 1
  /\ Len(PulsesOf(fn.in.words)) = 2
  /\ [k \in 1..Len(fn.out.calls) |-> fn.out.calls[k].fn]
       = <<"enableIROut", "mark", "space", "space">>

\* ------------------------------------------------------------------------
\* C16
\* ------------------------------------------------------------------------
\* C16: for every sequence of non-negative integer tokens written as a GC
\* code, with any accepted separator and with or without the prefixes,
\* the array handed to sendGC has the tokens' number of elements and
\* their values in their order.
C16_GCValues ==
  Decoded("gc") => SentData = fn.in.words

\* ------------------------------------------------------------------------
\* C17
\* ------------------------------------------------------------------------
SeparatorChars == {",", ";", " ", "\t"}

\* the number of maximal separator-free runs of str
Runs(str) ==
  Cardinality({ i \in 1..Len(str) :
                  /\ str[i] \notin SeparatorChars
                  /\ (i = 1 \/ str[i - 1] \in SeparatorChars) })

\* the first token of a Pronto code that the decoder does not parse as data
SkipsFirst(in) == Len(in.marker) > 1 /\ in.marker[1] \in {"R", "r"}

\* C17: the number of values parsed is the number of maximal
\* separator-free runs of the text (less the repeat marker in Pronto),
\* the count computed up front is that number too, and GC decoding fails
\* exactly when it is zero.
C17_TokenRuns ==
  /\ Decoded("raw") =>
       /\ Len(SentData) = Runs(fn.in.code)
       /\ countTokensFlexible(Trim(fn.in.code)) = Runs(fn.in.code)
       /\ fn.out.ok <=> Runs(fn.in.code) > 0
  /\ Decoded("gc") =>
       /\ Len(SentData) = Len(fn.in.words)
       /\ fn.out.ok <=> Len(fn.in.words) > 0
  /\ (Decoded("pronto") /\ fn.out.calls # <<>>) =>
       /\ Len(SentData)
            = Runs(fn.in.code) - (IF SkipsFirst(fn.in) THEN 1 ELSE 0)
       /\ countTokensFlexible(Trim(fn.in.code)) = Runs(fn.in.code)

\* two tokens parted by consecutive separators
C17_Witness ==
  /\ Decoded("raw") /\ fn.out.ok
  /\ Len(SentData) = 2
  /\ \E i \in 1..(Len(fn.in.code) - 1) :
       fn.in.code[i] \in SeparatorChars /\ fn.in.code[i + 1] \in SeparatorChars

\* ------------------------------------------------------------------------
\* C18
\* ------------------------------------------------------------------------
\* R or r followed by decimal digits
IsRepeatMarker(tok) ==
  /\ Len(tok) > 1
  /\ tok[1] \in {"R", "r"}
  /\ \A k \in 2..Len(tok) : isDigit(tok[k])

\* C18: the first token is a repeat marker exactly when it is R or r
\* followed by decimal digits: then its digits are the repeat count and it
\* is neither data nor counted; any other first token is the first data
\* word and the caller's repeat count is passed unchanged; with fewer
\* tokens left than the minimum, decoding fails without calling the
\* sender.
C18_RepeatMarker ==
  Decoded("pronto") =>
    LET in == fn.in
        isMarker == IsRepeatMarker(in.marker)
        kept == IF in.marker = <<>> \/ isMarker THEN 0 ELSE 1
        rep == IF isMarker THEN DigitsValue(Tail(in.marker), 10, 0)
               ELSE in.repeats
    IN  IF Len(in.words) + kept < kProntoMinLength
        THEN ~fn.out.ok /\ fn.out.calls = <<>>
        ELSE /\ fn.out.ok
             /\ Len(fn.out.calls) = 1
             /\ fn.out.calls[1].fn = "sendPronto"
             /\ fn.out.calls[1].arg = rep
             /\ Len(SentData) = Len(in.words) + kept
             /\ SubSeq(SentData, kept + 1, Len(SentData)) = in.words

\* ------------------------------------------------------------------------
\* C21
\* ------------------------------------------------------------------------
\* the record a device has once it is referenced for the first time
InitializedDefault ==
  [initialized |-> TRUE, power |-> FALSE, mode |-> "off",
   setpoint |-> 24 * FUnit, currentTemp |-> 24 * FUnit,
   fan |-> "auto", light |-> FALSE]

\* record i is as it was, or was uninitialized and is now the default
KeptOrCreated(i) ==
  \/ hvacStates'[i] = hvacStates[i]
  \/ ~hvacStates[i].initialized /\ hvacStates'[i] = InitializedDefault

\* C21: list, help, get and get_all invoke no emitter send and broadcast
\* nothing; list and help change no record; get and get_all change a
\* record only by creating the default record of an uninitialized device,
\* and answer with the stored state of an initialized one, left as it is.
C21_ReadOnlyCommands ==
  [][ (IsCommand(last') /\ CmdOf(last') \in {"list", "help", "get", "get_all"})
        => /\ EventsOf(trace', {"send_raw", "send_ac", "commit",
                                "broadcast", "push"}) = {}
           /\ CmdOf(last') \in {"list", "help"} => hvacStates' = hvacStates
           /\ \A i \in DOMAIN hvacStates : KeptOrCreated(i)
           /\ (CmdOf(last') = "get" /\ last'.ret) =>
                LET idx == TargetOf(last')
                IN  /\ hvacStates' = LazyInit(hvacStates, idx)
                    /\ last'.resp.states
                         = << writeStateJson(config.hvacs[idx + 1].id,
                                             hvacStates'[idx]) >>
                    /\ hvacStates[idx].initialized
                         => hvacStates'[idx] = hvacStates[idx]
           /\ CmdOf(last') = "get_all" =>
                /\ Len(last'.resp.states) = Len(config.hvacs)
                /\ \A k \in 1..Len(config.hvacs) :
                     /\ hvacStates'[k - 1].initialized
                     /\ last'.resp.states[k]
                          = writeStateJson(config.hvacs[k].id,
                                           hvacStates'[k - 1])
    ]_vars

\* get answers with the stored state of a device that a send switched on
C21_Witness ==
  /\ IsCommand(last) /\ CmdOf(last) = "get" /\ last.ret
  /\ hvacStates[TargetOf(last)].power
  /\ last.resp.states[1].power = "on"

\* ------------------------------------------------------------------------
\* Vocabulary of the main-loop properties
\* ------------------------------------------------------------------------
\* the step was one pass of loop()
IsPass(l) == l.op = "loop"

LineFeeds(bytes) == { k \in 1..Len(bytes) : bytes[k] = "\n" }

\* the text a line feed at position k ends: what follows the line feed
\* before it, carriage returns left out
TextBefore(bytes, k) ==
  LET before == { m \in LineFeeds(bytes) : m < k }
      from == IF before = {} THEN 1
              ELSE 1 + CHOOSE m \in before : \A n \in before : n <= m
  IN  SelectSeq(SubSeq(bytes, from, k - 1), LAMBDA ch : ch # "\r")

\* the non-empty lines a byte stream holds, in the order received
LinesOf(bytes) ==
  LET ends == { k \in LineFeeds(bytes) : TextBefore(bytes, k) # <<>> }
  IN  [n \in 1..Cardinality(ends) |->
         TextBefore(bytes,
           CHOOSE k \in ends : Cardinality({ m \in ends : m <= k }) = n)]

\* what follows the last line feed
Unfinished(bytes) == TextBefore(bytes, Len(bytes) + 1)

\* the lines a pass handed over for slot i, in the order it did
HandledFor(done, i) ==
  LET mine == SelectSeq(done, LAMBDA d : d.slot = i)
  IN  [k \in 1..Len(mine) |-> mine[k].line]

RepliesTo(tr, slot) ==
  Cardinality({ k \in 1..Len(tr) : tr[k].ev = "reply" /\ tr[k].slot = slot })

\* the commands of a pass in the order the loop takes them up: the web
\* request, then the lines the pass handed over
WebCommands(l) ==
  IF l.doc = NoDoc THEN <<>>
  ELSE << [slot |-> -1, err |-> FALSE, doc |-> l.doc] >>

LineCommands(done) ==
  [k \in 1..Len(done) |->
     [slot |-> done[k].slot, err |-> deserializeJson(done[k].line).err,
      doc |-> deserializeJson(done[k].line).doc]]

\* the commands run one after the other, each from the state the one
\* before it left, each followed by its reply
RECURSIVE Serial(_, _, _)
Serial(cmds, states, clients) ==
  IF cmds = <<>> THEN [states |-> states, events |-> <<>>]
  ELSE LET c == Head(cmds)
           out == IF c.err THEN Outcome(FALSE, NoResp, states, <<>>)
                  ELSE processCommand(c.doc, c.slot, TRUE, config,
                                      emitterRuntimeCount, states, clients)
           rest == Serial(Tail(cmds), out.states, clients)
       IN  [states |-> rest.states,
            events |-> out.events \o << Ev("reply", c.slot, -1, NoMsg) >>
                         \o rest.events]

\* ------------------------------------------------------------------------
\* C22: commands are processed one at a time.  What a pass of the loop
\* does is what its commands do when each runs alone, start to reply, from
\* the state the one before it left: first the web request, then the
\* snapshot for a connection accepted in the pass, then the lines of the
\* connections, those of one connection in the order they were received.
\* ------------------------------------------------------------------------
C22_OneAtATime ==
  [][ IsPass(last') =>
        LET web == Serial(WebCommands(last'), hvacStates, telnetClients)
            accepted == last'.src >= 0
            pushes == IF accepted
                      THEN SnapshotPushes(config, web.states, last'.src)
                      ELSE <<>>
            middle == IF accepted THEN InitializeAll(config, web.states)
                      ELSE web.states
            lines == Serial(LineCommands(fn'.done), middle, telnetClients')
        IN  /\ trace' = web.events \o pushes \o lines.events
            /\ hvacStates' = lines.states
            /\ \A i \in Slots :
                 IsLive(telnetClients[i]) =>
                   HandledFor(fn'.done, i) = LinesOf(fn.buf[i] \o fn.net[i])
            /\ \A k \in 1..(Len(fn'.done) - 1) :
                 fn'.done[k].slot <= fn'.done[k + 1].slot ]_vars

C22_Witness ==
  /\ IsPass(last)
  /\ last.doc # NoDoc
  /\ \E k \in 1..(Len(fn.done) - 1) : fn.done[k].slot # fn.done[k + 1].slot
  /\ Broadcasts(trace) >= 3

\* ------------------------------------------------------------------------
\* C23: per connection the carriage returns are dropped, the other bytes
\* are collected in the connection's own buffer, each line feed hands the
\* collected text over as one command and empties the buffer, an empty
\* line gives no command and no reply, and no line handed over for a
\* connection holds a byte of another connection.
\* ------------------------------------------------------------------------
C23_LineFraming ==
  [][ IsPass(last') =>
        \A i \in Slots :
          IF IsLive(telnetClients[i])
          THEN /\ HandledFor(fn'.done, i) = LinesOf(fn.buf[i] \o fn.net[i])
               /\ fn'.buf[i] = Unfinished(fn.buf[i] \o fn.net[i])
               /\ RepliesTo(trace', i)
                    = Len(LinesOf(fn.buf[i] \o fn.net[i]))
          ELSE /\ HandledFor(fn'.done, i) = <<>>
               /\ RepliesTo(trace', i) = 0 ]_vars

C23_Witness ==
  /\ IsPass(last)
  /\ \E k \in 1..(Len(fn.done) - 1) :
       /\ fn.done[k].slot = fn.done[k + 1].slot
       /\ fn.done[k].line = LineTexts.head \o LineTexts.on
  /\ \E k \in 1..Len(fn.done) :
       /\ fn.done[k].slot # fn.done[1].slot
       /\ fn.done[k].line # fn.done[1].line

\* ------------------------------------------------------------------------
\* C24: a line that does not parse is answered on its own connection with
\* ok:false, error:invalid_json.  A pass whose only commands are such
\* lines leaves every connection in its slot and every device state as it
\* was, sends nothing to an emitter and writes nothing but these replies.
\* ------------------------------------------------------------------------
OnlyBadLines(l, done) ==
  /\ l.doc = NoDoc
  /\ l.src = -1
  /\ done # <<>>
  /\ \A k \in 1..Len(done) : deserializeJson(done[k].line).err

C24_InvalidJson ==
  [][ IsPass(last') =>
        /\ \A k \in 1..Len(fn'.done) :
             deserializeJson(fn'.done[k].line).err =>
               /\ fn'.done[k].resp = RespError("invalid_json")
               /\ IsLive(telnetClients'[fn'.done[k].slot])
        /\ OnlyBadLines(last', fn'.done) =>
             /\ hvacStates' = hvacStates
             /\ telnetClients' = telnetClients
             /\ trace' = [k \in 1..Len(fn'.done) |->
                            Ev("reply", fn'.done[k].slot, -1, NoMsg)] ]_vars

C24_Witness ==
  /\ OnlyBadLines(last, fn.done)
  /\ IsPass(last)
  /\ \E i \in Slots : IsLive(telnetClients[i]) /\ i # fn.done[1].slot
  /\ \E i \in DOMAIN hvacStates : hvacStates[i].power

\* ------------------------------------------------------------------------
\* Vocabulary of the configuration properties
\* ------------------------------------------------------------------------
\* the step was this configuration request and it was accepted
Accepted(l, op) == l.op = op /\ l.ret

\* ------------------------------------------------------------------------
\* C25: after any sequence of configuration operations (add emitter,
\* delete emitter, add device, update device, delete device) the emitter
\* index of every configured device refers to a live emitter:
\* 0 <= index < emitter count.
\* ------------------------------------------------------------------------
C25_BindingsLive ==
  \A k \in 1..Len(config.hvacs) :
    /\ 0 <= config.hvacs[k].emitterIndex
    /\ config.hvacs[k].emitterIndex < config.emitterCount

\* ------------------------------------------------------------------------
\* C26: an accepted update, add or delete of a device leaves the device's
\* state at the uninitialized default record and the state of every other
\* device as it was (after a delete the devices behind the deleted one are
\* one place further down, each with its state).
\* ------------------------------------------------------------------------
C26_ResetOnlyThatDevice ==
  [][ LET idx == last'.src
          others == (0..(Len(config.hvacs) - 1)) \ {idx}
      IN  /\ Accepted(last', "hvacs_update") =>
               /\ hvacStates'[idx] = HvacRuntimeState
               /\ \A i \in others : hvacStates'[i] = hvacStates[i]
          /\ Accepted(last', "hvacs_add") =>
               /\ hvacStates'[idx] = HvacRuntimeState
               /\ \A i \in others : hvacStates'[i] = hvacStates[i]
          /\ Accepted(last', "hvacs_delete") =>
               \A i \in others :
                 hvacStates'[IF i < idx THEN i ELSE i - 1] = hvacStates[i]
    ]_vars

\* ------------------------------------------------------------------------
\* Vocabulary of the send properties
\* ------------------------------------------------------------------------
\* the power a send asks for: its power member, on when there is none,
\* off whenever its command member is "off"
PowerOf(doc) ==
  IF OrStr(doc.command, "") = "off" THEN FALSE
  ELSE strToBool(OrStr(doc.power, "on"), FALSE)

\* the send reached the custom branch: its device exists, is a custom one
\* and is bound to an emitter that exists
CustomSend(l) ==
  /\ IsSend(l)
  /\ TargetOf(l) >= 0
  /\ LET hvac == config.hvacs[TargetOf(l) + 1]
     IN  /\ hvac.isCustom \/ hvac.protocol = "CUSTOM"
         /\ hvac.emitterIndex \in 0..(emitterRuntimeCount - 1)

\* what a send does when this is the code it hands to the codec: it
\* invokes the emitter once, and it commits exactly when the codec accepts
\* the code
SendsCode(l, tr, code) ==
  /\ EmitterSends(tr) = 1
  /\ l.ret = SendCode(code, OrStr(l.doc.encoding,
                              config.hvacs[TargetOf(l) + 1].customEncoding)).ok
  /\ ~l.ret => l.resp = RespError("send_failed")

\* the send was refused with this error before any emitter was invoked
RefusedWith(l, tr, error) ==
  /\ ~l.ret
  /\ l.resp = RespError(error)
  /\ EmitterSends(tr) = 0

\* a requested temperature rounded to an integer
Rounded(v) == IF v.k = "int" THEN v.n ELSE (v.n + 50) \div 100

\* ------------------------------------------------------------------------
\* C27: in every reachable device state power off implies mode "off", and
\* a successful send that resolves to power off (power false, or command
\* "off") commits power off and mode "off" whatever mode it carried.
\* ------------------------------------------------------------------------
C27_OffForcesModeOff ==
  /\ \A i \in DOMAIN hvacStates :
       ~hvacStates[i].power => hvacStates[i].mode = "off"
  /\ (SendOk(last) /\ ~PowerOf(last.doc)) =>
       /\ ~hvacStates[TargetOf(last)].power
       /\ hvacStates[TargetOf(last)].mode = "off"

C27_Witness ==
  /\ SendOk(last)
  /\ ~PowerOf(last.doc)
  /\ OrStr(last.doc.mode, "") \notin {"", "off"}
  /\ hvacStates[TargetOf(last)].mode = "off"
  /\ \E i \in DOMAIN hvacStates : hvacStates[i].power

\* ------------------------------------------------------------------------
\* C28: for a custom device the desired power is on when the command has
\* no power member and off when its command member is "off", even if power
\* says on; with the power off the code handed to the codec is the
\* device's off code, even if the command brings a code of its own.
\* ------------------------------------------------------------------------
C28_CustomPowerAndOffCode ==
  [][ CustomSend(last') =>
        LET hvac == config.hvacs[TargetOf(last') + 1]
        IN  /\ last'.ret =>
                 hvacStates'[TargetOf(last')].power = PowerOf(last'.doc)
            /\ (~PowerOf(last'.doc) /\ Len(hvac.customOff) # 0) =>
                 SendsCode(last', trace', hvac.customOff) ]_vars

C28_Witness ==
  /\ CustomSend(last)
  /\ OrStr(last.doc.command, "") = "off"
  /\ OrStr(last.doc.power, "") = "on"
  /\ last.doc.code = CodeBad
  /\ last.ret
  /\ ~hvacStates[TargetOf(last)].power

\* ------------------------------------------------------------------------
\* C29: a custom device powering on with no code in the command: the code
\* sent is the temperature table's entry for the requested temperature
\* rounded to an integer; a requested temperature without an entry fails
\* with missing_temp_code; no code and no temperature fails with
\* missing_code; neither failure invokes an emitter.
\* ------------------------------------------------------------------------
C29_TableLookup ==
  [][ (CustomSend(last') /\ PowerOf(last'.doc) /\ Len(last'.doc.code) = 0) =>
        LET hvac == config.hvacs[TargetOf(last') + 1]
            temp == last'.doc.temp
            entry == findCustomTempCode(hvac, Rounded(temp))
        IN  IF ~IsNumber(temp)
              THEN RefusedWith(last', trace', "missing_code")
            ELSE IF Len(entry) = 0
              THEN RefusedWith(last', trace', "missing_temp_code")
            ELSE SendsCode(last', trace', entry) ]_vars

\* ------------------------------------------------------------------------
\* C30: a raw command whose emitter index is not in 0 .. emitterCount-1,
\* whatever integer it is (negative, 256 or more), fails with
\* invalid_emitter and invokes no send on any emitter.
\* ------------------------------------------------------------------------
C30_RawEmitterRange ==
  [][ (IsCommand(last') /\ CmdOf(last') = "raw"
       /\ OrInt(last'.doc.emitter, 0) \notin 0..(emitterRuntimeCount - 1)) =>
        RefusedWith(last', trace', "invalid_emitter") ]_vars

\* ------------------------------------------------------------------------
\* C38: the state-diff predicate is irreflexive and symmetric: no state is
\* changed against itself, changed(a, b) = changed(b, a) for all states,
\* and two states that are both uninitialized are never reported as
\* changed, whatever their other fields hold.
\* ------------------------------------------------------------------------
C38_DiffSymmetric ==
  fn.op = "diff" =>
    /\ fn.changed = hvacStateChanged(fn.b, fn.a)
    /\ fn.a = fn.b => ~fn.changed
    /\ ~hvacStateChanged(fn.a, fn.a)
    /\ ~hvacStateChanged(fn.b, fn.b)
    /\ ~hvacStateChanged([fn.a EXCEPT !.initialized = FALSE],
                         [fn.b EXCEPT !.initialized = FALSE])

C38_Witness ==
  /\ fn.op = "diff"
  /\ fn.changed
  /\ fn.a.initialized /\ fn.b.initialized
  /\ fn.a.power = fn.b.power /\ fn.a.light = fn.b.light
  /\ fn.a.setpoint < fn.b.setpoint
  /\ fn.a.currentTemp > fn.b.currentTemp

\* ------------------------------------------------------------------------
\* C32: a failed send, whatever its error, leaves an initialized target
\* state field for field as it was and no observer receives a push; the
\* only change to the store a failed send can make is to turn the
\* never-initialized record of its target into the initialized default.
\* ------------------------------------------------------------------------
C32_FailedSendFrame ==
  [][ (IsSend(last') /\ ~last'.ret) =>
        /\ EventsOf(trace', {"broadcast", "push", "commit"}) = {}
        /\ \A i \in DOMAIN hvacStates :
             /\ KeptOrCreated(i)
             /\ i # TargetOf(last') => hvacStates'[i] = hvacStates[i] ]_vars

C32_Witness ==
  /\ IsSend(last)
  /\ last.resp = RespError("send_failed")
  /\ hvacStates[TargetOf(last)].power
  /\ \E i \in Slots : IsLive(telnetClients[i])

\* ------------------------------------------------------------------------
\* C36: every complete non-empty line received on a live connection gets
\* exactly one reply, written to that same connection: the reply of the
\* command, or invalid_json for a line that does not parse.  The replies
\* come in the order of the lines and none goes to another connection.
\* ------------------------------------------------------------------------
TelnetReplies(tr) ==
  SelectSeq(tr, LAMBDA e : e.ev = "reply" /\ e.slot >= 0)

C36_OneReplyPerLine ==
  [][ IsPass(last') =>
        /\ TelnetReplies(trace')
             = [k \in 1..Len(fn'.done) |->
                  Ev("reply", fn'.done[k].slot, -1, NoMsg)]
        /\ \A k \in 1..Len(fn'.done) :
             /\ IsLive(telnetClients[fn'.done[k].slot])
             /\ fn'.done[k].resp # NoResp
             /\ deserializeJson(fn'.done[k].line).err
                  <=> fn'.done[k].resp = RespError("invalid_json")
        /\ \A i \in Slots :
             /\ IsLive(telnetClients[i]) =>
                  Len(HandledFor(fn'.done, i))
                    = Len(LinesOf(fn.buf[i] \o fn.net[i]))
             /\ (last'.doc = NoDoc /\ last'.src = -1
                   /\ \A k \in 1..Len(fn'.done) : fn'.done[k].slot = i)
                  => PushesTo(trace', i) = 0 ]_vars

C36_Witness ==
  /\ IsPass(last)
  /\ \E k, m \in 1..Len(fn.done) :
       /\ k < m
       /\ fn.done[k].slot # fn.done[m].slot
       /\ fn.done[k].resp = RespError("invalid_json")
       /\ fn.done[m].resp.states # <<>>
  /\ \E i \in Slots : PushesTo(trace, i) > 0

\* ------------------------------------------------------------------------
\* C37: a slot given to an incoming connection has its line buffer emptied
\* first.  What an unterminated line of the previous occupant left in the
\* buffer is dropped: no line is handled for the slot in the pass that
\* reassigns it, and the lines handled for it afterwards are those of the
\* bytes the new occupant sent.
\* ------------------------------------------------------------------------
C37_BufferEmptiedOnReassign ==
  [][ IsPass(last') =>
        /\ last'.src >= 0 =>
             /\ ~IsLive(telnetClients[last'.src])
             /\ IsLive(telnetClients'[last'.src])
             /\ fn'.left = fn.buf[last'.src]
             /\ fn'.buf[last'.src] = <<>>
             /\ HandledFor(fn'.done, last'.src) = <<>>
             /\ RepliesTo(trace', last'.src) = 0
        /\ \A i \in Slots :
             (IsLive(telnetClients[i]) /\ fn.left # <<>> /\ last.src = i
                /\ IsPass(last)) =>
               HandledFor(fn'.done, i) = LinesOf(fn.net[i]) ]_vars

C37_Witness ==
  /\ IsPass(last)
  /\ last.src = 0
  /\ fn.left = LineTexts.head
  /\ fn.buf[0] = <<>>
  /\ IsLive(telnetClients[2])

\* ------------------------------------------------------------------------
\* Vocabulary of the observers' properties
\* ------------------------------------------------------------------------
\* the state objects a handler wrote: pushed, or in its reply
MsgsOf(tr, resp) ==
  { tr[k].msg : k \in EventsOf(tr, {"push", "broadcast"}) }
    \cup { resp.states[n] : n \in 1..Len(resp.states) }

\* device k of the configuration, as its record would be reported now
Reported(k) == writeStateJson(config.hvacs[k].id, hvacStates[k - 1])

Watching == { i \in Slots : IsLive(telnetClients[i]) }

\* ------------------------------------------------------------------------
\* C31: every state message reports current_temp equal to the setpoint,
\* whatever currentTemp the record holds.  A successful send that changes
\* nothing but the stored currentTemp, by more than 0.05, still triggers a
\* broadcast, and what is broadcast is the same object the state before
\* the send was reported with.
\* ------------------------------------------------------------------------
C31_CurrentTempIsSetpoint ==
  [][ /\ \A m \in MsgsOf(trace', last'.resp) : m.current_temp = m.setpoint
      /\ \A t \in DOMAIN hvacStates :
           ( /\ SendOk(last') /\ TargetOf(last') = t
             /\ hvacStates[t].initialized
             /\ hvacStates'[t] = [hvacStates[t] EXCEPT
                                    !.currentTemp = hvacStates'[t].currentTemp]
             /\ MoreThanEps(hvacStates'[t].currentTemp,
                            hvacStates[t].currentTemp) )
           => /\ Broadcasts(trace') = 1
              /\ MsgsOf(trace', last'.resp)
                   = { writeStateJson(config.hvacs[t + 1].id, hvacStates[t]) }
              /\ \A i \in Watching :
                   PushesTo(trace', i) = IF i = last'.src THEN 0 ELSE 1 ]_vars

C31_Witness ==
  /\ fn.op = "seen"
  /\ SendOk(last)
  /\ IsNumber(last.doc.current_temp)
  /\ fn.was.initialized
  /\ hvacStates[TargetOf(last)]
       = [fn.was EXCEPT !.currentTemp = AsFloat(last.doc.current_temp)]
  /\ fn.was.currentTemp = kDefaultTemp
  /\ \E i \in Watching :
       /\ PushesTo(trace, i) = 1
       /\ fn.seen[i][TargetOf(last) + 1].current_temp
            # hvacStates[TargetOf(last)].currentTemp

\* ------------------------------------------------------------------------
\* C33: while the configuration stays as it is, for every observer that is
\* connected and every device, the state message written last to that
\* observer (snapshot, broadcast, or the reply to its own send or get)
\* agrees with the store on power, mode, fan and light.
\* ------------------------------------------------------------------------
C33_ObserversAgree ==
  fn.op = "seen" =>
    \A i \in Watching, k \in 1..Len(config.hvacs) :
      /\ fn.seen[i][k].type = "state"
      /\ fn.seen[i][k].id = config.hvacs[k].id
      /\ fn.seen[i][k].power = Reported(k).power
      /\ fn.seen[i][k].mode = Reported(k).mode
      /\ fn.seen[i][k].fan = Reported(k).fan
      /\ fn.seen[i][k].light = Reported(k).light

C33_Witness ==
  /\ fn.op = "seen"
  /\ Cardinality(Watching) = 2
  /\ SendOk(last) /\ last.src \in Watching
  /\ hvacStates[1].power /\ hvacStates[1].light
  /\ \E i \in Watching : fn.seen[i][2].setpoint # hvacStates[1].setpoint

\* ------------------------------------------------------------------------
\* C34: in the same setting, after any successful sends, the setpoint in
\* the state message written last to a connected observer differs from the
\* stored setpoint by at most 0.05, also after a chain of changes that are
\* each below the threshold.
\* ------------------------------------------------------------------------
C34_SetpointWithinEps ==
  fn.op = "seen" =>
    \A i \in Watching, k \in 1..Len(config.hvacs) :
      ~MoreThanEps(fn.seen[i][k].setpoint, hvacStates[k - 1].setpoint)

\* ------------------------------------------------------------------------
\* C35: a successful send without a numeric current_temp leaves the stored
\* currentTemp as it was, 24.0 for a device never initialized before, also
\* when the command sets a temperature; the stored currentTemp changes
\* only by a successful send with a numeric current_temp, to that number.
\* ------------------------------------------------------------------------
C35_CurrentTempKept ==
  [][ \A t \in DOMAIN hvacStates :
        /\ (SendOk(last') /\ ~IsNumber(last'.doc.current_temp))
             => hvacStates'[t].currentTemp = hvacStates[t].currentTemp
        /\ hvacStates'[t].currentTemp # hvacStates[t].currentTemp
             => /\ SendOk(last') /\ TargetOf(last') = t
                /\ IsNumber(last'.doc.current_temp)
                /\ hvacStates'[t].currentTemp
                     = AsFloat(last'.doc.current_temp) ]_vars

C35_Witness ==
  /\ fn.op = "seen"
  /\ SendOk(last)
  /\ ~fn.was.initialized
  /\ last.doc.temp = JFloat(2500)
  /\ hvacStates[TargetOf(last)].setpoint = JsonToFloat(2500)
  /\ hvacStates[TargetOf(last)].currentTemp = kDefaultTemp

====
